---- MODULE Spec2Model ----
(***************************************************************************)
(* A model of the Isaac Sim warehouse utility scripts:                     *)
(*   change_arg_in_yaml.py   (read_parameter, replace_parameter, main)     *)
(*   replace_config_path.py  (update_path_in_function)                     *)
(*   place_racks_startup.py  (configuration checks, rack placement loop)   *)
(*   create_ira_yaml.py      (update_and_save_config)                      *)
(*   warehouse_generator.py  (Rack, WarehouseDesigner)                     *)
(* Each script is an independent program; every program has its own        *)
(* variables, its own actions and its own specification.                   *)
(***************************************************************************)
EXTENDS Integers, Sequences, FiniteSets, TLC

VARIABLES
    \* change_arg_in_yaml.py
    yamlFile,     \* the YAML file: a sequence of lines, each a sequence of characters
    yamlPc,       \* "edit" while the file is being authored, "done" after main()
    yamlArgs,     \* the command line of main(): [param, value], value = None without -v
    yamlBefore,   \* the file content when main() was started
    yamlOut,      \* what main() produced: the value read, or the message printed
    \* replace_config_path.py
    pyFile,       \* the target Python file: a sequence of lines [indent, kind]
    pyPc,         \* "edit" while the file is being authored, "done" after the update,
                  \* "exit" after main has exited without it
    pyBefore,     \* the file content when update_path_in_function was started
    pyTargetExists, \* TARGET_FILE exists
    pyRun,        \* the run of main: its argument, exit status and the path it passed on
    \* place_racks_startup.py
    plConfig,     \* place_racks.yaml as parsed: the two sections of asset paths
    plLayout,     \* the layout JSON as parsed
    plPc,         \* the script's position
    plExc,        \* the exception that ended the script ("" while none)
    plSimApp,     \* SimulationApp has been constructed
    plStage,      \* the USD file opened with open_stage ("" while none)
    plPrims,      \* the rack prims on the stage, in creation order, with their ops
    plAttempts,   \* the rack paths CreateReference was called for, in call order
    plI,          \* the loop variable i
    plSuccessful, \* the counter successful
    \* create_ira_yaml.py
    iraPc,        \* the position in update_and_save_config
    iraArgs,      \* [scene_asset_path, char_command_file]
    iraConfig,    \* the dictionary config
    iraFile,      \* the lines of ~/Downloads/test_case.yaml (<<>> while not written)
    \* warehouse_generator.py: the fields of WarehouseDesigner.
    \* Canvas coordinates are held in thousandths of a pixel, lengths in
    \* millimetres, the scale in pixels per metre, rotations in degrees.
    scale,
    warehouse_width_m,
    warehouse_height_m,
    origin_x_m,
    origin_y_m,
    warehouse_var,      \* the warehouse type radio buttons
    racks,              \* sequence of Rack: [x, y, width_m, depth_m, rotation, rack_type]
    waypoints,          \* sequence of <<x, y>>
    mode,
    selected_rack,      \* NoRack, the rack racks[selected_rack_idx], or a rack no longer listed
    selected_rack_idx,  \* -1 for None, else the 0-based index
    drag_start,         \* <<>> for None, else <<x, y>>
    temp_line,          \* the guide line of row mode exists on the canvas
    entries,            \* the entry fields: width, depth, rotation, preset, count, rows, spacings
    \* the files the designer writes
    json_file,          \* the layout JSON written by save_layout
    txt_file,           \* the TXT written next to it by save_layout
    export_file,        \* the TXT written by export_path_txt
    saved,              \* the designer state when json_file was written
    exported,           \* the designer state when export_file was written
    last_op,            \* what ran last: "init", "edit", or the file handler's name
    edits_after_write,  \* the number of edits made since a file was first written
    row_press_pending,  \* a press in row mode inside the warehouse has had no release yet
    \* isaacsim.sensors.rtx: the USD stage and the commands executed on it
    rtxStage,     \* the prims of the stage: [path, id, kind, defined, attrs]
    rtxNextId,    \* the number of prims created so far
    rtxLog        \* one entry per executed IsaacSensorCreateRtxLidar: arguments and result

yamlVars == <<yamlFile, yamlPc, yamlArgs, yamlBefore, yamlOut>>
pyVars == <<pyFile, pyPc, pyBefore, pyTargetExists, pyRun>>
plVars == <<plConfig, plLayout, plPc, plExc, plSimApp, plStage, plPrims, plAttempts,
            plI, plSuccessful>>

iraVars == <<iraPc, iraArgs, iraConfig, iraFile>>

layoutVars == <<scale, warehouse_width_m, warehouse_height_m, origin_x_m, origin_y_m,
                warehouse_var, racks, waypoints>>
uiVars == <<mode, selected_rack, selected_rack_idx, drag_start, temp_line, entries>>
fileVars == <<json_file, txt_file, export_file, saved, exported>>
eventVars == <<row_press_pending>>
designerVars == <<layoutVars, uiVars, fileVars, last_op, edits_after_write, eventVars>>

rtxVars == <<rtxStage, rtxNextId, rtxLog>>

vars == <<yamlVars, pyVars, plVars, iraVars, designerVars, rtxVars>>

\* what the steps of one program leave alone: the other programs
YamlFrame == UNCHANGED <<pyVars, plVars, iraVars, designerVars, rtxVars>>
PyFrame == UNCHANGED <<yamlVars, plVars, iraVars, designerVars, rtxVars>>
PlFrame == UNCHANGED <<yamlVars, pyVars, iraVars, designerVars, rtxVars>>
IraFrame == UNCHANGED <<yamlVars, pyVars, plVars, designerVars, rtxVars>>
DesignerFrame == UNCHANGED <<yamlVars, pyVars, plVars, iraVars, rtxVars>>
RtxFrame == UNCHANGED <<yamlVars, pyVars, plVars, iraVars, designerVars>>

(***************************************************************************)
(* Character sequences                                                     *)
(***************************************************************************)

\* str.index(c): the first position of character c in s, 0 when absent
IndexOf(s, c) ==
    IF \E i \in 1..Len(s) : s[i] = c
    THEN CHOOSE i \in 1..Len(s) : s[i] = c /\ \A j \in 1..(i - 1) : s[j] # c
    ELSE 0

\* s[from..] in Python slice terms, positions counted from 1
Tail_(s, from) == SubSeq(s, from, Len(s))

\* p occurs in s starting at position i
OccursAt(s, p, i) ==
    /\ i >= 1
    /\ i + Len(p) - 1 <= Len(s)
    /\ \A k \in 1..Len(p) : s[i + k - 1] = p[k]

\* str.split(sep) for a one-character separator
RECURSIVE Split(_, _)
Split(s, sep) ==
    LET i == IndexOf(s, sep)
    IN  IF i = 0 THEN <<s>>
        ELSE <<SubSeq(s, 1, i - 1)>> \o Split(Tail_(s, i + 1), sep)

\* str.replace(a, b) for one-character a and b
ReplaceChar(s, a, b) == [i \in 1..Len(s) |-> IF s[i] = a THEN b ELSE s[i]]

IsSpace(c) == c \in {" ", "\n"}

\* number of leading whitespace characters: len(line) - len(line.lstrip())
LeadingSpace(s) ==
    IF \E i \in 1..Len(s) : ~IsSpace(s[i])
    THEN (CHOOSE i \in 1..Len(s) : ~IsSpace(s[i]) /\ \A j \in 1..(i - 1) : IsSpace(s[j])) - 1
    ELSE Len(s)

\* the first run of non-whitespace characters of a line, as [from, to] positions
FirstTokenEnd(s) ==
    LET b == LeadingSpace(s) + 1
    IN  IF \E i \in b..Len(s) : IsSpace(s[i])
        THEN (CHOOSE i \in b..Len(s) : IsSpace(s[i]) /\ \A j \in b..(i - 1) : ~IsSpace(s[j])) - 1
        ELSE Len(s)

(***************************************************************************)
(* change_arg_in_yaml.py                                                   *)
(***************************************************************************)

\* Largest number of lines of a YAML file
MaxYamlLines == 3

\* Line shapes the authored files are built from: key, scalar value ("" for a
\* section header) and whether a trailing comment follows. <<"#","p">> is a
\* commented-out parameter, <<"a","p">> a key that contains another key's name.
YamlShapes ==
    { [key |-> <<"a">>, val |-> <<>>, cmt |-> FALSE],
      [key |-> <<"b">>, val |-> <<>>, cmt |-> FALSE],
      [key |-> <<"b">>, val |-> <<"1">>, cmt |-> FALSE],
      [key |-> <<"p">>, val |-> <<"1">>, cmt |-> FALSE],
      [key |-> <<"p">>, val |-> <<"1">>, cmt |-> TRUE],
      [key |-> <<"a", "p">>, val |-> <<"1">>, cmt |-> FALSE],
      [key |-> <<"#", "p">>, val |-> <<"1">>, cmt |-> FALSE] }

\* Parameter names given with -p, and values given with -v
YamlParams ==
    { <<"p">>, <<"a", ".", "p">>, <<"a", ":", "p">>, <<"b", ".", "p">>, <<"a", ".", "b">> }

YamlValues == { <<"9">>, <<"1">> }

\* The text of one line: "<indent><key>:[ <val>][ #c]\n"
YamlLineText(shape, indent) ==
    [i \in 1..indent |-> " "] \o shape.key \o <<":">>
        \o (IF shape.val = <<>> THEN <<>> ELSE <<" ">> \o shape.val)
        \o (IF shape.cmt THEN <<" ", "#", "c">> ELSE <<>>)
        \o <<"\n">>

\* ---- the document yaml.full_load builds from a block mapping ----

\* a line the YAML parser skips: blank, or a full-line comment
YamlIsComment(line) ==
    LeadingSpace(line) = Len(line) \/ line[LeadingSpace(line) + 1] = "#"

YamlIndent(line) == LeadingSpace(line)

YamlKey(line) == SubSeq(line, LeadingSpace(line) + 1, IndexOf(line, ":") - 1)

\* the scalar after "key:", without blanks, the trailing comment and the newline
YamlScalar(line) ==
    LET c    == IndexOf(line, ":")
        h    == IndexOf(line, "#")
        last == IF h > c THEN h - 1 ELSE Len(line)
    IN  SelectSeq(SubSeq(line, c + 1, last), LAMBDA ch : ~IsSpace(ch))

\* the line a line is nested under (0: the top level)
YamlParent(f, j) ==
    LET above == { k \in 1..(j - 1) : ~YamlIsComment(f[k]) /\ YamlIndent(f[k]) < YamlIndent(f[j]) }
    IN  IF above = {} THEN 0 ELSE CHOOSE k \in above : \A m \in above : m <= k

YamlChildren(f, n) == { j \in 1..Len(f) : ~YamlIsComment(f[j]) /\ YamlParent(f, j) = n }

\* node n (0: the document, i: the value of line i) is a mapping
YamlIsMapping(f, n) ==
    /\ YamlChildren(f, n) # {}
    /\ n # 0 => YamlScalar(f[n]) = <<>>

PyNone == [kind |-> "none"]

\* the Python value of node n
YamlValue(f, n) ==
    IF YamlIsMapping(f, n) THEN [kind |-> "dict", node |-> n]
    ELSE IF n # 0 /\ YamlScalar(f[n]) # <<>> THEN [kind |-> "scalar", text |-> YamlScalar(f[n])]
    ELSE PyNone

\* config[p] can be evaluated: config is a dict that has key p
YamlHasKey(f, n, p) ==
    YamlIsMapping(f, n) /\ \E j \in YamlChildren(f, n) : YamlKey(f[j]) = p

YamlGetItem(f, n, p) == CHOOSE j \in YamlChildren(f, n) : YamlKey(f[j]) = p

\* ---- read_parameter ----

\* the loop with "except: continue" in place of "except: return None"
RECURSIVE ReadLoopSkipAbsent(_, _, _)
ReadLoopSkipAbsent(f, n, tree) ==
    IF tree = <<>> THEN YamlValue(f, n)
    ELSE IF YamlHasKey(f, n, Head(tree))
         THEN ReadLoopSkipAbsent(f, YamlGetItem(f, n, Head(tree)), Tail(tree))
         ELSE ReadLoopSkipAbsent(f, n, Tail(tree))

\* the loop "for p in param_tree: try: config = config[p] except: return None"
RECURSIVE ReadLoop(_, _, _)
ReadLoop(f, n, tree) ==
    IF tree = <<>> THEN YamlValue(f, n)
    ELSE IF YamlHasKey(f, n, Head(tree))
         THEN ReadLoop(f, YamlGetItem(f, n, Head(tree)), Tail(tree))
         ELSE PyNone

read_parameter(f, param_name) == ReadLoop(f, 0, Split(param_name, "."))

\* ---- replace_parameter ----

\* re.search(r"^\s*\S*{param_name}\S*:.*$", line)
LineMatches(line, p) ==
    LET b == LeadingSpace(line) + 1
        e == FirstTokenEnd(line)
    IN  \E i \in b..(e + 1) :
            /\ OccursAt(line, p, i)
            /\ i + Len(p) - 1 <= e
            /\ \E j \in (i + Len(p))..e : line[j] = ":"

\* the rewritten line: line[:colon_index+1] + " " + new_value + ...
RewriteLine(line, new_value) ==
    LET colon == IndexOf(line, ":")
        hash  == IndexOf(line, "#")
    IN  IF hash # 0
        THEN SubSeq(line, 1, colon) \o <<" ">> \o new_value \o <<" ">> \o Tail_(line, hash)
        ELSE SubSeq(line, 1, colon) \o <<" ">> \o new_value \o <<"\n">>

\* the loop without its "break": every line matching the last component is rewritten
RECURSIVE ReplaceLoopNoBreak(_, _, _, _)
ReplaceLoopNoBreak(lines, i, tree, new_value) ==
    IF i > Len(lines) THEN [lines |-> lines, replaced |-> FALSE, at |-> 0]
    ELSE IF LineMatches(lines[i], Head(tree))
         THEN IF Len(tree) > 1
              THEN ReplaceLoopNoBreak(lines, i + 1, Tail(tree), new_value)
              ELSE LET rest == ReplaceLoopNoBreak(lines, i + 1, tree, new_value)
                   IN  [lines    |-> [rest.lines EXCEPT ![i] = RewriteLine(lines[i], new_value)],
                        replaced |-> TRUE,
                        at       |-> i]
         ELSE ReplaceLoopNoBreak(lines, i + 1, tree, new_value)

\* the loop over the lines from line i on, looking for the components of tree in
\* order: [lines, replaced, at] with at the index of the rewritten line
RECURSIVE ReplaceLoop(_, _, _, _)
ReplaceLoop(lines, i, tree, new_value) ==
    IF i > Len(lines) THEN [lines |-> lines, replaced |-> FALSE, at |-> 0]
    ELSE IF LineMatches(lines[i], Head(tree))
         THEN IF Len(tree) > 1
              THEN ReplaceLoop(lines, i + 1, Tail(tree), new_value)
              ELSE [lines    |-> [lines EXCEPT ![i] = RewriteLine(lines[i], new_value)],
                    replaced |-> TRUE,
                    at       |-> i]
         ELSE ReplaceLoop(lines, i + 1, tree, new_value)

replace_parameter(f, param_name, new_value) ==
    ReplaceLoop(f, 1, Split(ReplaceChar(param_name, ":", "."), "."), new_value)

\* ---- the program ----

YamlInit ==
    /\ yamlFile = <<>>
    /\ yamlPc = "edit"
    /\ yamlArgs = [param |-> <<>>, given |-> FALSE, value |-> <<>>]
    /\ yamlBefore = <<>>
    /\ yamlOut = [kind |-> "nothing"]

\* a line may follow the file's lines in a YAML block mapping
YamlMayAppend(f, shape, indent) ==
    LET line == YamlLineText(shape, indent)
        real == { k \in 1..Len(f) : ~YamlIsComment(f[k]) }
        prev == CHOOSE k \in real : \A m \in real : m <= k
        g    == Append(f, line)
        j    == Len(g)
    IN  \/ YamlIsComment(line)
        \/ /\ real = {}
           /\ indent = 0
        \/ /\ real # {}
           /\ \/ indent = YamlIndent(f[prev]) + 1 /\ YamlScalar(f[prev]) = <<>>
              \/ \E k \in real : YamlIndent(f[k]) = indent /\ indent <= YamlIndent(f[prev])
           /\ \A k \in YamlChildren(g, YamlParent(g, j)) : k # j => YamlKey(g[k]) # YamlKey(line)

\* the user writes one more line of the file
YamlWriteLine ==
    /\ YamlFrame
    /\ yamlPc = "edit"
    /\ Len(yamlFile) < MaxYamlLines
    /\ \E shape \in YamlShapes, indent \in 0..Len(yamlFile) :
        /\ YamlMayAppend(yamlFile, shape, indent)
        /\ yamlFile' = Append(yamlFile, YamlLineText(shape, indent))
    /\ UNCHANGED <<yamlPc, yamlArgs, yamlBefore, yamlOut>>

\* main() without -v: read_parameter only
YamlMainRead ==
    /\ YamlFrame
    /\ yamlPc = "edit"
    /\ \E p \in YamlParams :
        /\ yamlArgs' = [param |-> p, given |-> FALSE, value |-> <<>>]
        /\ yamlOut' = read_parameter(yamlFile, p)
    /\ yamlBefore' = yamlFile
    /\ yamlPc' = "done"
    /\ UNCHANGED yamlFile

\* main() with -v: replace_parameter
YamlMainReplace ==
    /\ YamlFrame
    /\ yamlPc = "edit"
    /\ \E p \in YamlParams, v \in YamlValues :
        LET r == replace_parameter(yamlFile, p, v)
        IN  /\ yamlArgs' = [param |-> p, given |-> TRUE, value |-> v]
            /\ yamlFile' = IF r.replaced THEN r.lines ELSE yamlFile
            /\ yamlOut' = [kind |-> IF r.replaced THEN "replaced" ELSE "not found", at |-> r.at]
    /\ yamlBefore' = yamlFile
    /\ yamlPc' = "done"

(***************************************************************************)
(* Properties of change_arg_in_yaml.py                                     *)
(***************************************************************************)

YamlReplaceDone == yamlPc = "done" /\ yamlArgs.given
YamlReadDone    == yamlPc = "done" /\ ~yamlArgs.given

\* the components of the parameter chain, separators "." and ":" alike
YamlChain(param) == Split(ReplaceChar(param, ":", "."), ".")

\* some lines of f, in file order, match the components of the chain one by one
ChainMatches(f, chain) ==
    \E idx \in [1..Len(chain) -> 1..Len(f)] :
        /\ \A k \in 1..(Len(chain) - 1) : idx[k] < idx[k + 1]
        /\ \A k \in 1..Len(chain) : LineMatches(f[idx[k]], chain[k])

\* line `new` is line `old` with everything up to its first colon kept and the
\* new value put right after it
IsRewriteOf(new, old, value) ==
    LET c == IndexOf(old, ":")
    IN  /\ Len(new) >= c + 1 + Len(value)
        /\ SubSeq(new, 1, c) = SubSeq(old, 1, c)
        /\ new[c + 1] = " "
        /\ SubSeq(new, c + 2, c + 1 + Len(value)) = value
        /\ new[Len(new)] = "\n"
        /\ \A k \in 1..(Len(new) - 1) : new[k] # "\n"

\* C1: replace_parameter changes at most one line. When the lines of the file
\* match the whole parameter chain, exactly one line, a line matching the last
\* component, is rewritten to carry the new value, and every other line and the
\* number and order of the lines stay as they were; when the chain is not
\* matched the file is left as it was and "not found" is reported.
C1_ReplaceChangesOneLine ==
    YamlReplaceDone =>
        LET chain == YamlChain(yamlArgs.param)
        IN  /\ Len(yamlFile) = Len(yamlBefore)
            /\ Cardinality({ i \in 1..Len(yamlFile) : yamlFile[i] # yamlBefore[i] }) <= 1
            /\ ChainMatches(yamlBefore, chain) =>
                /\ yamlOut.kind = "replaced"
                /\ \E i \in 1..Len(yamlFile) :
                    /\ LineMatches(yamlBefore[i], chain[Len(chain)])
                    /\ IsRewriteOf(yamlFile[i], yamlBefore[i], yamlArgs.value)
                    /\ \A j \in 1..Len(yamlFile) : j # i => yamlFile[j] = yamlBefore[j]
            /\ ~ChainMatches(yamlBefore, chain) =>
                /\ yamlOut.kind = "not found"
                /\ yamlFile = yamlBefore

\* a nested replacement has rewritten a line while other lines were left alone
C1_Witness ==
    /\ YamlReplaceDone
    /\ yamlOut.kind = "replaced"
    /\ Len(YamlChain(yamlArgs.param)) = 2
    /\ Len(yamlFile) = 3
    /\ yamlFile # yamlBefore

\* the keys of the lines a line is nested under, outermost first, then its own
RECURSIVE YamlPath(_, _)
YamlPath(f, j) ==
    IF j = 0 THEN <<>> ELSE Append(YamlPath(f, YamlParent(f, j)), YamlKey(f[j]))

\* C2: for a nested name section1.section2.param, replace_parameter replaces
\* the value of the key param nested under section1 and then section2, never
\* the value of a same-named key of another section or nesting level: the line
\* it rewrites is a key line whose path of keys is the parameter chain.
C2_ReplacesTheNestedKey ==
    (YamlReplaceDone /\ yamlOut.kind = "replaced" /\ Len(YamlChain(yamlArgs.param)) >= 2) =>
        /\ ~YamlIsComment(yamlBefore[yamlOut.at])
        /\ YamlPath(yamlBefore, yamlOut.at) = YamlChain(yamlArgs.param)

\* C8: read_parameter(file, 'k1.k2...kn') returns the value reached by going
\* down the parsed mapping through k1, ..., kn, and None when a component is
\* absent or the node reached cannot be indexed; main() without -v leaves the
\* file as it was.
C8_ReadDescendsTheMapping ==
    YamlReadDone =>
        LET keys == Split(yamlArgs.param, ".")
            hits == { j \in 1..Len(yamlBefore) :
                        ~YamlIsComment(yamlBefore[j]) /\ YamlPath(yamlBefore, j) = keys }
        IN  /\ yamlFile = yamlBefore
            /\ hits = {} => yamlOut = PyNone
            /\ \A j \in hits :
                 yamlOut = IF YamlScalar(yamlBefore[j]) # <<>>
                           THEN [kind |-> "scalar", text |-> YamlScalar(yamlBefore[j])]
                           ELSE IF \E k \in 1..Len(yamlBefore) :
                                       /\ ~YamlIsComment(yamlBefore[k])
                                       /\ Len(YamlPath(yamlBefore, k)) = Len(keys) + 1
                                       /\ SubSeq(YamlPath(yamlBefore, k), 1, Len(keys)) = keys
                                THEN [kind |-> "dict", node |-> j]
                                ELSE PyNone

\* a nested scalar has been read
C8_Witness ==
    /\ YamlReadDone
    /\ Len(Split(yamlArgs.param, ".")) = 2
    /\ yamlOut.kind = "scalar"

(***************************************************************************)
(* replace_config_path.py                                                  *)
(***************************************************************************)

\* Largest number of lines of the target Python file
MaxPyLines == 5

\* Kinds of line of the target file:
\*   "def_target"  def get_default_config_file_path():
\*   "if"          a compound statement header such as  if cond:
\*   "assign"      custom_path = "<some old path>"
\*   "return"      return <expression>
\*   "stmt"        any other simple statement
\*   "comment"     a comment line or a blank line
\* and, written by the script,
\*   "assign_new"     custom_path = "<new_config_path>"
\*   "return_custom"  return custom_path
PyInputKinds == {"def_target", "if", "assign", "return", "stmt", "comment"}

PyIndents == 0..2

\* re.match(r'^\s*def\s+get_default_config_file_path\s*\(', line)
PyIsTargetDef(line) == line.kind = "def_target"

\* re.match(r'^\s*custom_path\s*=', line)
PyIsCustomPath(line) == line.kind \in {"assign", "assign_new"}

\* re.match(r'^\s*return\s+', line)
PyIsReturn(line) == line.kind \in {"return", "return_custom"}

\* line.strip() and not line.strip().startswith('#')
PyIsCode(line) == line.kind # "comment"

PyIsHeader(line) == line.kind \in {"def_target", "if"}

\* "for i, line in enumerate(lines)": st holds the loop's local variables
RECURSIVE UpdateLoop(_, _, _)
UpdateLoop(lines, i, st) ==
    IF i > Len(lines) THEN st.updated_lines
    ELSE
        LET line == lines[i]
        IN  IF PyIsTargetDef(line)
            THEN UpdateLoop(lines, i + 1,
                    [st EXCEPT !.inside_function = TRUE,
                               !.indent_level = line.indent,
                               !.updated_lines = Append(@, line)])
            ELSE
                LET inside == st.inside_function
                              /\ ~(PyIsCode(line) /\ line.indent <= st.indent_level)
                    s1     == [st EXCEPT !.inside_function = inside]
                    new    == [indent |-> line.indent, kind |-> "assign_new"]
                    ret    == [indent |-> line.indent, kind |-> "return_custom"]
                IN  IF inside /\ PyIsCustomPath(line)
                    THEN UpdateLoop(lines, i + 1,
                            [s1 EXCEPT !.custom_path_exists = TRUE,
                                       !.updated_lines = Append(@, new)])
                    ELSE IF inside /\ PyIsReturn(line)
                    THEN UpdateLoop(lines, i + 1,
                            [s1 EXCEPT !.custom_path_exists = TRUE,
                                       !.updated_lines =
                                            IF st.custom_path_exists
                                            THEN Append(@, ret)
                                            ELSE Append(Append(@, new), ret)])
                    ELSE UpdateLoop(lines, i + 1,
                            [s1 EXCEPT !.updated_lines = Append(@, line)])

update_path_in_function(lines) ==
    UpdateLoop(lines, 1,
        [inside_function |-> FALSE, indent_level |-> 0,
         custom_path_exists |-> FALSE, updated_lines |-> <<>>])

\* a path: absolute or relative, and its components
PyPath(abs, parts) == [abs |-> abs, parts |-> parts]

\* the working directory main is started in
PyCwd == <<"home", "u">>

\* the regular files of the file system, by absolute components
PyFiles == { <<"home", "u", "cfg.yaml">>, <<"data", "real.yaml">> }

\* the symbolic links of the file system and what they point to
PySymlinks ==
    [l \in { <<"home", "u", "link.yaml">>, <<"home", "u", "dangling">> } |->
        IF l = <<"home", "u", "link.yaml">> THEN <<"data", "real.yaml">>
        ELSE <<"data", "gone.yaml">>]

\* the config_path arguments given on the command line
PyArgs ==
    { PyPath(FALSE, <<"cfg.yaml">>),
      PyPath(FALSE, <<"..", "u", ".", "cfg.yaml">>),
      PyPath(TRUE, <<"home", "u", "cfg.yaml">>),
      PyPath(FALSE, <<"link.yaml">>),
      PyPath(FALSE, <<"dangling">>),
      PyPath(FALSE, <<"missing.yaml">>) }

\* the components with "." dropped and ".." taken with the component before it
RECURSIVE PyNormalise(_, _)
PyNormalise(parts, done) ==
    IF parts = <<>> THEN done
    ELSE IF Head(parts) = "." THEN PyNormalise(Tail(parts), done)
    ELSE IF Head(parts) = ".."
    THEN PyNormalise(Tail(parts),
                     IF done = <<>> THEN done ELSE SubSeq(done, 1, Len(done) - 1))
    ELSE PyNormalise(Tail(parts), Append(done, Head(parts)))

\* Path.resolve(): absolute, normalised, symbolic links followed
PyResolve(path) ==
    LET full == PyNormalise(IF path.abs THEN path.parts ELSE PyCwd \o path.parts, <<>>)
    IN  PyPath(TRUE, IF full \in DOMAIN PySymlinks THEN PySymlinks[full] ELSE full)

\* Path.exists(): the path, links followed, names a file
PyExists(path) == PyResolve(path).parts \in PyFiles

\* main passing the argument on as it was given
config_path_as_given(config_path) == config_path

\* config_path_absolute = config_path.resolve()
config_path_absolute(config_path) == PyResolve(config_path)

PyNoRun == [status |-> -1]

PyInit ==
    /\ pyFile = <<>>
    /\ pyPc = "edit"
    /\ pyBefore = <<>>
    /\ pyTargetExists = FALSE
    /\ pyRun = PyNoRun

\* the last line of f that is neither a comment nor blank (0: none)
PyLastCode(f) ==
    LET code == { k \in 1..Len(f) : PyIsCode(f[k]) }
    IN  IF code = {} THEN 0 ELSE CHOOSE k \in code : \A m \in code : m <= k

\* line may follow the lines of f in a Python source file
PyMayAppend(f, line) ==
    LET prev == PyLastCode(f)
    IN  \/ ~PyIsCode(line)
        \/ prev = 0 /\ line.indent = 0
        \/ prev # 0 /\ PyIsHeader(f[prev]) /\ line.indent = f[prev].indent + 1
        \/ prev # 0 /\ ~PyIsHeader(f[prev]) /\ line.indent <= f[prev].indent

\* one more line of the target file
PyWriteLine ==
    /\ PyFrame
    /\ pyPc = "edit"
    /\ Len(pyFile) < MaxPyLines
    /\ \E k \in PyInputKinds, n \in PyIndents :
        /\ PyMayAppend(pyFile, [indent |-> n, kind |-> k])
        /\ pyFile' = Append(pyFile, [indent |-> n, kind |-> k])
    /\ pyTargetExists' = TRUE
    /\ UNCHANGED <<pyPc, pyBefore, pyRun>>

\* update_path_in_function(TARGET_FILE, new_config_path) on a complete file
PyUpdate ==
    /\ PyFrame
    /\ pyPc = "edit"
    /\ PyLastCode(pyFile) # 0 => ~PyIsHeader(pyFile[PyLastCode(pyFile)])
    /\ pyTargetExists
    /\ pyBefore' = pyFile
    /\ pyFile' = update_path_in_function(pyFile)
    /\ pyPc' = "done"
    /\ UNCHANGED <<pyTargetExists, pyRun>>

\* main, with the config path taken from the command line
PyMain ==
    /\ PyFrame
    /\ pyPc = "edit"
    /\ PyLastCode(pyFile) # 0 => ~PyIsHeader(pyFile[PyLastCode(pyFile)])
    /\ \E config_path \in PyArgs :
        IF ~PyExists(config_path)
        THEN /\ pyRun' = [status |-> 1, arg |-> config_path, existed |-> pyTargetExists,
                          new_config_path |-> PyPath(FALSE, <<>>)]
             /\ UNCHANGED pyFile
        ELSE IF ~pyTargetExists
        THEN /\ pyRun' = [status |-> 1, arg |-> config_path, existed |-> pyTargetExists,
                          new_config_path |-> PyPath(FALSE, <<>>)]
             /\ UNCHANGED pyFile
        ELSE /\ pyRun' = [status |-> 0, arg |-> config_path, existed |-> pyTargetExists,
                          new_config_path |-> config_path_absolute(config_path)]
             /\ pyFile' = update_path_in_function(pyFile)
    /\ pyBefore' = pyFile
    /\ pyPc' = IF pyRun'.status = 0 THEN "done" ELSE "exit"
    /\ UNCHANGED pyTargetExists

(***************************************************************************)
(* Properties of replace_config_path.py                                    *)
(***************************************************************************)

\* the lines of the body of the function defined at line d
PyBody(f, d) ==
    { j \in (d + 1)..Len(f) :
        \A k \in (d + 1)..j : PyIsCode(f[k]) => f[k].indent > f[d].indent }

\* C5: after update_path_in_function, every definition of
\* get_default_config_file_path that contains a return statement contains the
\* assignment custom_path = "<new path>" on a line before its first return,
\* its custom_path assignments all carry the new path, and each of its return
\* statements reads "return custom_path".
C5_FunctionReturnsCustomPath ==
    pyPc = "done" =>
        \A d \in 1..Len(pyFile) :
            LET body    == PyBody(pyFile, d)
                returns == { j \in body : PyIsReturn(pyFile[j]) }
            IN  (PyIsTargetDef(pyFile[d]) /\ returns # {}) =>
                    /\ \E a \in body :
                        /\ pyFile[a].kind = "assign_new"
                        /\ \A r \in returns : a < r
                    /\ \A j \in body : pyFile[j].kind \notin {"assign", "return"}

\* the path is absolute, has no "." or ".." and no symbolic link, and names
\* the file the argument names from the working directory
PyIsResolvedOf(path, arg) ==
    /\ path.abs
    /\ \A k \in 1..Len(path.parts) : path.parts[k] \notin {".", ".."}
    /\ path.parts \notin DOMAIN PySymlinks
    /\ path = PyResolve(arg)

\* C11: when the config path of the command line does not exist, or the
\* target file does not exist, main exits with status 1 and the target is
\* neither created nor changed; otherwise main exits normally and the path
\* it has written into the target is the resolved absolute path of the
\* argument.
C11_ChecksBeforeWriting ==
    pyRun # PyNoRun =>
        IF ~PyExists(pyRun.arg) \/ ~pyRun.existed
        THEN /\ pyRun.status = 1
             /\ pyTargetExists = pyRun.existed
             /\ pyFile = pyBefore
        ELSE /\ pyRun.status = 0
             /\ pyTargetExists
             /\ PyIsResolvedOf(pyRun.new_config_path, pyRun.arg)

\* main has written the path of a relative argument through a symbolic link
C11_Witness ==
    /\ pyRun # PyNoRun
    /\ pyRun.status = 0
    /\ pyRun.arg = PyPath(FALSE, <<"link.yaml">>)
    /\ pyFile # pyBefore
    /\ \E k \in 1..Len(pyFile) : pyFile[k].kind = "assign_new"

(***************************************************************************)
(* place_racks_startup.py                                                  *)
(***************************************************************************)

\* Largest number of racks of a layout
MaxRacks == 2

\* a key of a parsed mapping that may be missing
Absent == [present |-> FALSE, v |-> ""]
Given(v) == [present |-> TRUE, v |-> v]

\* dict.get(key, default) on a mapping held as a function
DictGet(map, key, default) == IF key \in DOMAIN map THEN map[key] ELSE default

\* the "warehouse_usd_file" sections tried: missing, or a mapping type -> path
PlWarehouseSections ==
    { [present |-> FALSE, map |-> <<>>],
      [present |-> TRUE, map |-> [k \in {"small", "big"} |-> "wh.usd"]],
      [present |-> TRUE, map |-> [k \in {"big"} |-> "wh.usd"]],
      [present |-> TRUE, map |-> [k \in {"small", "big"} |-> IF k = "small" THEN "" ELSE "wh.usd"]],
      [present |-> TRUE, map |-> [k \in {"small", "big"} |-> IF k = "big" THEN "default path" ELSE "wh.usd"]] }

\* the "rack_asset_file" sections tried
PlRackSections ==
    { [present |-> FALSE, map |-> <<>>],
      [present |-> TRUE, map |-> [k \in {"narrow_standard"} |-> "rack.usd"]],
      [present |-> TRUE, map |-> [k \in {"wide"} |-> "rack.usd"]],
      [present |-> TRUE, map |-> [k \in {"narrow_standard"} |-> ""]],
      [present |-> TRUE, map |-> [k \in {"narrow_standard"} |-> "default path"]] }

\* the "warehouse_type" values of a layout
PlWarehouseTypes == { Absent, Given("Small"), Given("Big"), Given("Factory") }

\* the rack records of a layout: 'x' (and 'y') may be missing, and so may 'rotation'
PlRackRecords ==
    { [hasXY |-> TRUE, x |-> 1, y |-> 2, rotation |-> Given(0)],
      [hasXY |-> TRUE, x |-> 3, y |-> 1, rotation |-> Given(90)],
      [hasXY |-> TRUE, x |-> 2, y |-> 2, rotation |-> Absent],
      [hasXY |-> FALSE, x |-> 0, y |-> 0, rotation |-> Given(0)] }

\* what the Isaac Sim calls of one loop iteration may do
PlOutcomes == {"ok", "create_raises", "no_prim", "translate_raises", "rotate_raises"}

\* str.lower()
Lower(str) ==
    CASE str = "Small" -> "small"
      [] str = "Big" -> "big"
      [] str = "Factory" -> "factory"
      [] OTHER -> str

\* f"{i:03d}"
Format03d(i) ==
    IF i < 1000 THEN <<i \div 100, (i \div 10) % 10, i % 10>>
    ELSE <<i \div 1000, (i \div 100) % 10, (i \div 10) % 10, i % 10>>

\* rack_path = f"{racks_parent_path}/Rack_{i:03d}"
RackPath(i) == <<"/World/Racks/Rack_", Format03d(i)>>

\* warehouse_type = data.get("warehouse_type","small").lower()
PlWarehouseType(layout) ==
    Lower(IF layout.warehouse_type.present THEN layout.warehouse_type.v ELSE "small")

\* "if not path or path == 'default path'" without the test for the placeholder
PlPathRejectedEmptyOnly(path) == path = ""

\* if not path or path == "default path"
PlPathRejected(path) == path = "" \/ path = "default path"

PlInit ==
    /\ plConfig = [warehouse_usd_file |-> [present |-> FALSE, map |-> <<>>],
                   rack_asset_file |-> [present |-> FALSE, map |-> <<>>]]
    /\ plLayout = [warehouse_type |-> Absent, hasScale |-> FALSE, hasRacks |-> FALSE,
                   racks |-> <<>>]
    /\ plPc = "config"
    /\ plExc = ""
    /\ plSimApp = FALSE
    /\ plStage = ""
    /\ plPrims = <<>>
    /\ plAttempts = <<>>
    /\ plI = 0
    /\ plSuccessful = 0

PlRest == <<plExc, plSimApp, plStage, plPrims, plAttempts, plI, plSuccessful>>

\* place_racks.yaml is written
PlWriteConfig ==
    /\ PlFrame
    /\ plPc = "config"
    /\ \E w \in PlWarehouseSections, r \in PlRackSections :
        plConfig' = [warehouse_usd_file |-> w, rack_asset_file |-> r]
    /\ plPc' = "layout"
    /\ UNCHANGED <<plLayout, PlRest>>

\* the head of the layout JSON is written
PlWriteLayout ==
    /\ PlFrame
    /\ plPc = "layout"
    /\ \E t \in PlWarehouseTypes, sc \in BOOLEAN, rk \in BOOLEAN :
        plLayout' = [warehouse_type |-> t, hasScale |-> sc, hasRacks |-> rk, racks |-> <<>>]
    /\ plPc' = "racks"
    /\ UNCHANGED <<plConfig, PlRest>>

\* one more rack record in the layout JSON
PlWriteRack ==
    /\ PlFrame
    /\ plPc = "racks"
    /\ plLayout.hasRacks
    /\ Len(plLayout.racks) < MaxRacks
    /\ \E r \in PlRackRecords :
        plLayout' = [plLayout EXCEPT !.racks = Append(@, r)]
    /\ UNCHANGED <<plConfig, plPc, PlRest>>

\* lines 9-24: both files are read; scale = data["scale"], racks = data["racks"]
PlReadInputs ==
    /\ PlFrame
    /\ plPc = "racks"
    /\ IF plLayout.hasScale /\ plLayout.hasRacks
       THEN plPc' = "check_warehouse" /\ plExc' = plExc
       ELSE plPc' = "failed" /\ plExc' = "KeyError"
    /\ UNCHANGED <<plConfig, plLayout, plSimApp, plStage, plPrims, plAttempts, plI,
                   plSuccessful>>

\* lines 27-29
PlCheckWarehouse ==
    /\ PlFrame
    /\ plPc = "check_warehouse"
    /\ IF ~plConfig.warehouse_usd_file.present
       THEN plPc' = "failed" /\ plExc' = "KeyError"
       ELSE IF PlPathRejected(DictGet(plConfig.warehouse_usd_file.map,
                                      PlWarehouseType(plLayout), ""))
       THEN plPc' = "failed" /\ plExc' = "ValueError"
       ELSE plPc' = "check_rack" /\ plExc' = plExc
    /\ UNCHANGED <<plConfig, plLayout, plSimApp, plStage, plPrims, plAttempts, plI,
                   plSuccessful>>

\* lines 32-34
PlCheckRackAsset ==
    /\ PlFrame
    /\ plPc = "check_rack"
    /\ IF ~plConfig.rack_asset_file.present
       THEN plPc' = "failed" /\ plExc' = "KeyError"
       ELSE IF PlPathRejected(DictGet(plConfig.rack_asset_file.map, "narrow_standard", ""))
       THEN plPc' = "failed" /\ plExc' = "ValueError"
       ELSE plPc' = "launch" /\ plExc' = plExc
    /\ UNCHANGED <<plConfig, plLayout, plSimApp, plStage, plPrims, plAttempts, plI,
                   plSuccessful>>

\* lines 41-45: simulation_app = SimulationApp({...})
PlLaunch ==
    /\ PlFrame
    /\ plPc = "launch"
    /\ plSimApp' = TRUE
    /\ plPc' = "open_stage"
    /\ UNCHANGED <<plConfig, plLayout, plExc, plStage, plPrims, plAttempts, plI, plSuccessful>>

\* lines 57-75: open_stage(warehouse_usd_file), the parent prims, successful = 0
PlOpenStage ==
    /\ PlFrame
    /\ plPc = "open_stage"
    /\ plStage' = DictGet(plConfig.warehouse_usd_file.map, PlWarehouseType(plLayout), "")
    /\ plSuccessful' = 0
    /\ plI' = 0
    /\ plPc' = "loop"
    /\ UNCHANGED <<plConfig, plLayout, plExc, plSimApp, plPrims, plAttempts>>

\* lines 76-111: one iteration of "for i, rack in enumerate(racks)"
PlPlaceRack ==
    /\ PlFrame
    /\ plPc = "loop"
    /\ plI < Len(plLayout.racks)
    /\ LET rack == plLayout.racks[plI + 1]
           path == RackPath(plI)
       IN  IF ~rack.hasXY
           THEN \* x_m = rack["x"] is outside the try
                /\ plPc' = "failed"
                /\ plExc' = "KeyError"
                /\ UNCHANGED <<plPrims, plAttempts, plI, plSuccessful>>
           ELSE \E o \in PlOutcomes :
                LET rot     == rack.rotation
                    bare    == [path |-> path, translate |-> Absent, rotate |-> Absent]
                    moved   == [bare EXCEPT !.translate = Given(<<rack.x, rack.y, 0>>)]
                    rotated == [moved EXCEPT !.rotate = Given(rot.v)]
                IN  /\ o = "rotate_raises" => rot.present /\ rot.v # 0
                    /\ plAttempts' = Append(plAttempts, path)
                    /\ plI' = plI + 1
                    /\ UNCHANGED <<plPc, plExc>>
                    /\ CASE o \in {"create_raises", "no_prim"} ->
                                \* the except branch, or "Failed to get prim"
                                UNCHANGED <<plPrims, plSuccessful>>
                         [] o = "translate_raises" ->
                                /\ plPrims' = Append(plPrims, bare)
                                /\ UNCHANGED plSuccessful
                         [] o = "rotate_raises" ->
                                /\ plPrims' = Append(plPrims, moved)
                                /\ UNCHANGED plSuccessful
                         [] o = "ok" /\ ~rot.present ->
                                \* rack["rotation"] raises KeyError inside the try
                                /\ plPrims' = Append(plPrims, moved)
                                /\ UNCHANGED plSuccessful
                         [] o = "ok" /\ rot.present /\ rot.v = 0 ->
                                /\ plPrims' = Append(plPrims, moved)
                                /\ plSuccessful' = plSuccessful + 1
                         [] o = "ok" /\ rot.present /\ rot.v # 0 ->
                                /\ plPrims' = Append(plPrims, rotated)
                                /\ plSuccessful' = plSuccessful + 1
    /\ UNCHANGED <<plConfig, plLayout, plSimApp, plStage>>

\* line 113: the loop is over, the count is reported
PlReport ==
    /\ PlFrame
    /\ plPc = "loop"
    /\ plI = Len(plLayout.racks)
    /\ plPc' = "running"
    /\ UNCHANGED <<plConfig, plLayout, PlRest>>


(***************************************************************************)
(* Properties of place_racks_startup.py                                    *)
(***************************************************************************)

\* a section gives no usable path for a key
PlNoUsablePath(section, key) ==
    \/ ~section.present
    \/ key \notin DOMAIN section.map
    \/ section.map[key] \in {"", "default path"}

\* the configuration is unusable for the layout
PlUnusable ==
    \/ PlNoUsablePath(plConfig.warehouse_usd_file, PlWarehouseType(plLayout))
    \/ PlNoUsablePath(plConfig.rack_asset_file, "narrow_standard")

PlInputsWritten == plPc \notin {"config", "layout"}

\* nothing of Isaac Sim has been touched
PlNotLaunched ==
    /\ ~plSimApp
    /\ plStage = ""
    /\ plPrims = <<>>
    /\ plAttempts = <<>>
    /\ plPc \notin {"launch", "open_stage", "loop", "running"}

PlAllOpsSet(prim, rack) ==
    /\ prim.translate = Given(<<rack.x, rack.y, 0>>)
    /\ rack.rotation.present
    /\ rack.rotation.v # 0 => prim.rotate = Given(rack.rotation.v)

\* C7: once the stage is open, every rack of the layout is attempted exactly
\* once, in list order, rack i as /World/Racks/Rack_<i as 3 digits>; a failure
\* for one rack does not end the loop, so when the script is past the loop or
\* has stopped all racks have been attempted; and successful is the number of
\* racks whose prim was found and got all its transform ops.
C7_EveryRackAttempted ==
    plPc \in {"loop", "running", "failed"} /\ plSimApp =>
        /\ plAttempts = [i \in 1..plI |-> RackPath(i - 1)]
        /\ plPc \in {"running", "failed"} => Len(plAttempts) = Len(plLayout.racks)
        /\ plSuccessful =
             Cardinality({ k \in 1..Len(plPrims) :
                \E i \in 1..Len(plLayout.racks) :
                    /\ plPrims[k].path = RackPath(i - 1)
                    /\ PlAllOpsSet(plPrims[k], plLayout.racks[i]) })
        /\ 0 <= plSuccessful
        /\ plSuccessful <= Len(plLayout.racks)


(***************************************************************************)
(* create_ira_yaml.py                                                      *)
(***************************************************************************)

\* one line "key: value" of a YAML text: indent in levels, the value's text and
\* whether it is quoted; a section header has hasValue = FALSE
IraLine(indent, key, text, quoted) ==
    [indent |-> indent, key |-> key, hasValue |-> TRUE, text |-> text, quoted |-> quoted]
IraHeader(indent, key) ==
    [indent |-> indent, key |-> key, hasValue |-> FALSE, text |-> "", quoted |-> FALSE]

\* YAML_CONFIG_STRING, line by line (comments left out)
YAML_CONFIG_STRING ==
    << IraHeader(0, "isaacsim.replicator.agent"),
       IraLine(1, "version", "0.5.0", FALSE),
       IraHeader(1, "global"),
       IraLine(2, "seed", "123", FALSE),
       IraLine(2, "simulation_length", "750", FALSE),
       IraHeader(1, "scene"),
       IraLine(2, "asset_path", "", FALSE),
       IraHeader(1, "sensor"),
       IraLine(2, "camera_num", "1", FALSE),
       IraHeader(1, "character"),
       IraLine(2, "asset_path", "https://omniverse-content-production.s3-us-west-2.amazonaws.com/Assets/Isaac/4.5/Isaac/People/Characters/", FALSE),
       IraLine(2, "command_file", "", FALSE),
       IraLine(2, "filters", "", TRUE),
       IraLine(2, "num", "1", FALSE),
       IraHeader(1, "robot"),
       IraLine(2, "command_file", "default_robot_command.txt", FALSE),
       IraLine(2, "nova_carter_num", "0", FALSE),
       IraLine(2, "transporter_num", "0", FALSE),
       IraLine(2, "write_data", "false", FALSE),
       IraHeader(1, "replicator"),
       IraLine(2, "writer", "IRABasicWriter", FALSE),
       IraHeader(2, "parameters"),
       IraLine(3, "object_info_bounding_box_2d_tight", "false", FALSE),
       IraLine(3, "output_dir", "/home/user/ReplicatorResult", FALSE) >>

\* the values given on the command line
IraScenePaths == {"/scenes/warehouse.usd", "scene.usd", "", "123", "false"}
IraCommandFiles == {"/paths/layout.txt", "cmd.txt", "", "750", "null"}

\* the type YAML resolves a plain scalar to
IraResolve(text) ==
    CASE text \in {"", "null", "~"} -> "null"
      [] text \in {"true", "false"} -> "bool"
      [] text \in {"0", "1", "123", "750"} -> "int"
      [] OTHER -> "str"

IraScalar(type, text) == [kind |-> "scalar", type |-> type, text |-> text, items |-> <<>>]
IraMap(items) == [kind |-> "map", type |-> "", text |-> "", items |-> items]
IraStr(text) == IraScalar("str", text)

\* the value of a "key: value" line
IraLoadScalar(line) ==
    IF line.quoted THEN IraStr(line.text)
    ELSE IF IraResolve(line.text) = "null" THEN IraScalar("null", "")
    ELSE IraScalar(IraResolve(line.text), line.text)

\* the last line of the block that starts at line i: the lines nested under it
IraBlockEnd(lines, i) ==
    LET stop == { k \in (i + 1)..Len(lines) : lines[k].indent <= lines[i].indent }
    IN  IF stop = {} THEN Len(lines) ELSE (CHOOSE k \in stop : \A m \in stop : k <= m) - 1

\* yaml.full_load of lines from..to: an ordered mapping, keys in file order
RECURSIVE IraLoad(_, _, _)
IraLoad(lines, from, to) ==
    IF from > to THEN <<>>
    ELSE LET e    == IraBlockEnd(lines, from)
             node == IF lines[from].hasValue THEN IraLoadScalar(lines[from])
                     ELSE IraMap(IraLoad(lines, from + 1, e))
         IN  <<[key |-> lines[from].key, val |-> node]>> \o IraLoad(lines, e + 1, to)

\* yaml.dump of a scalar: strings that would not be read back as strings are quoted
IraDumpScalar(indent, key, node) ==
    CASE node.type = "null" -> IraLine(indent, key, "null", FALSE)
      [] node.type = "str" -> IraLine(indent, key, node.text, IraResolve(node.text) # "str")
      [] OTHER -> IraLine(indent, key, node.text, FALSE)

\* yaml.dump(config, f, sort_keys=False): the items in insertion order
RECURSIVE IraDump(_, _)
IraDump(items, indent) ==
    IF items = <<>> THEN <<>>
    ELSE LET it == Head(items)
         IN  (IF it.val.kind = "map"
              THEN <<IraHeader(indent, it.key)>> \o IraDump(it.val.items, indent + 1)
              ELSE <<IraDumpScalar(indent, it.key, it.val)>>)
             \o IraDump(Tail(items), indent)

\* key in current
IraHas(items, key) == \E i \in 1..Len(items) : items[i].key = key

\* current[key]
IraGet(items, key) == (items[CHOOSE i \in 1..Len(items) : items[i].key = key]).val

\* current[key] = val: an existing key keeps its place, a new key goes last
IraSet(items, key, val) ==
    IF IraHas(items, key)
    THEN [i \in 1..Len(items) |-> IF items[i].key = key THEN [key |-> key, val |-> val]
                                  ELSE items[i]]
    ELSE Append(items, [key |-> key, val |-> val])

\* get_nested_key(data, keys) succeeds: every key of keys[:-1] is found
RECURSIVE IraPathExists(_, _)
IraPathExists(items, keys) ==
    \/ Len(keys) <= 1
    \/ /\ IraHas(items, Head(keys))
       /\ IraGet(items, Head(keys)).kind = "map"
       /\ IraPathExists(IraGet(items, Head(keys)).items, Tail(keys))

\* the assignment made to the first key of the path instead of through
\* get_nested_key: start_config[keys[0]] = value
IraAssignAtTop(items, keys, val) == IraSet(items, Head(keys), val)

\* parent_dict = get_nested_key(data, keys); parent_dict[keys[-1]] = val,
\* seen from data: the dictionaries are shared, so data changes at that path
RECURSIVE IraAssign(_, _, _)
IraAssign(items, keys, val) ==
    IF Len(keys) = 1 THEN IraSet(items, keys[1], val)
    ELSE IraSet(items, Head(keys),
                IraMap(IraAssign(IraGet(items, Head(keys)).items, Tail(keys), val)))

ROOT_KEY == "isaacsim.replicator.agent"
NESTED_PATH_SCENE == <<"scene", "asset_path">>
NESTED_PATH_CHAR == <<"character", "command_file">>

IraInit ==
    /\ iraPc = "start"
    /\ iraArgs = [scene_asset_path |-> "", char_command_file |-> ""]
    /\ iraConfig = <<>>
    /\ iraFile = <<>>

\* main(): the two required arguments
IraMain ==
    /\ IraFrame
    /\ iraPc = "start"
    /\ \E sp \in IraScenePaths, cf \in IraCommandFiles :
        iraArgs' = [scene_asset_path |-> sp, char_command_file |-> cf]
    /\ iraPc' = "load"
    /\ UNCHANGED <<iraConfig, iraFile>>

\* config = yaml.full_load(YAML_CONFIG_STRING); start_config = config.get(ROOT_KEY)
IraLoadConfig ==
    /\ IraFrame
    /\ iraPc = "load"
    /\ iraConfig' = IraLoad(YAML_CONFIG_STRING, 1, Len(YAML_CONFIG_STRING))
    /\ iraPc' = IF IraHas(iraConfig', ROOT_KEY) THEN "scene" ELSE "returned"
    /\ UNCHANGED <<iraArgs, iraFile>>

\* the update of keys under ROOT_KEY, or the KeyError branch
IraUpdate(keys, val, next) ==
    LET start == IraGet(iraConfig, ROOT_KEY).items
    IN  IF IraPathExists(start, keys)
        THEN /\ iraConfig' = IraSet(iraConfig, ROOT_KEY, IraMap(IraAssign(start, keys, val)))
             /\ iraPc' = next
        ELSE /\ iraConfig' = iraConfig
             /\ iraPc' = "returned"

\* 1. Update scene.asset_path
IraUpdateScene ==
    /\ IraFrame
    /\ iraPc = "scene"
    /\ IraUpdate(NESTED_PATH_SCENE, IraStr(iraArgs.scene_asset_path), "character")
    /\ UNCHANGED <<iraArgs, iraFile>>

\* 2. Update character.command_file
IraUpdateCharacter ==
    /\ IraFrame
    /\ iraPc = "character"
    /\ IraUpdate(NESTED_PATH_CHAR, IraStr(iraArgs.char_command_file), "save")
    /\ UNCHANGED <<iraArgs, iraFile>>

\* 3. yaml.dump(config, f, sort_keys=False)
IraSave ==
    /\ IraFrame
    /\ iraPc = "save"
    /\ iraFile' = IraDump(iraConfig, 0)
    /\ iraPc' = "saved"
    /\ UNCHANGED <<iraArgs, iraConfig>>

(***************************************************************************)
(* Properties of create_ira_yaml.py                                        *)
(***************************************************************************)

\* the keys of the sections line i of a YAML text is nested in, then its own key
RECURSIVE IraLinePath(_, _)
IraLinePath(lines, i) ==
    LET above == { k \in 1..(i - 1) : lines[k].indent < lines[i].indent }
    IN  IF above = {} THEN <<lines[i].key>>
        ELSE Append(IraLinePath(lines, CHOOSE k \in above : \A m \in above : m <= k),
                    lines[i].key)

\* what a reader of the YAML text gets for the value of a line
IraLineValue(line) ==
    IF ~line.hasValue THEN [type |-> "map", text |-> ""]
    ELSE IF line.quoted THEN [type |-> "str", text |-> line.text]
    ELSE IF IraResolve(line.text) = "null" THEN [type |-> "null", text |-> ""]
    ELSE [type |-> IraResolve(line.text), text |-> line.text]

\* C10: the file written by update_and_save_config has the template's keys, in
\* the template's order and nesting; the values of scene.asset_path and
\* character.command_file under isaacsim.replicator.agent are the two
\* arguments, and every other value is the template's.
C10_TemplateWithTwoValuesReplaced ==
    iraPc = "saved" =>
        /\ Len(iraFile) = Len(YAML_CONFIG_STRING)
        /\ \A i \in 1..Len(iraFile) :
            LET path == IraLinePath(YAML_CONFIG_STRING, i)
            IN  /\ iraFile[i].key = YAML_CONFIG_STRING[i].key
                /\ iraFile[i].indent = YAML_CONFIG_STRING[i].indent
                /\ IraLineValue(iraFile[i]) =
                     IF path = <<ROOT_KEY, "scene", "asset_path">>
                     THEN [type |-> "str", text |-> iraArgs.scene_asset_path]
                     ELSE IF path = <<ROOT_KEY, "character", "command_file">>
                     THEN [type |-> "str", text |-> iraArgs.char_command_file]
                     ELSE IraLineValue(YAML_CONFIG_STRING[i])

\* a file was written with two different values, one of them needing quotes
C10_Witness ==
    /\ iraPc = "saved"
    /\ iraArgs.scene_asset_path = "/scenes/warehouse.usd"
    /\ iraArgs.char_command_file = "750"
    /\ \E i \in 1..Len(iraFile) : iraFile[i].quoted /\ iraFile[i].text = "750"


(***************************************************************************)
(* warehouse_generator.py                                                  *)
(***************************************************************************)

\* Largest number of racks, and of waypoints, of a layout
MaxLayoutItems == 1

\* Largest number of edits made after a file was first written
MaxEditsAfterWrite == 1

\* the canvas points clicked, in pixels
ClickPoints == { <<10, 20>> }

\* the values the scale spinbox is set to
ScaleChoices == { 30, 50 }

\* self.warehouse_presets: width and height in metres
warehouse_presets ==
    [p \in {"Small", "Big", "Factory", "Custom"} |->
        CASE p = "Small" -> <<30, 20>>
          [] p = "Big" -> <<54, 32>>
          [] p = "Factory" -> <<60, 34>>
          [] p = "Custom" -> <<40, 30>>]

\* the warehouse presets chosen
WarehouseChoices == { "Small", "Big" }

\* self.rack_presets: width and depth, in millimetres
rack_presets ==
    [p \in {"SmallRack", "Custom"} |->
        IF p = "SmallRack" THEN <<2000, 960>> ELSE <<1000, 1000>>]

\* the rotation typed into the rotation entry after a rack preset is chosen, in degrees
RotationTyped == [p \in {"SmallRack", "Custom"} |-> IF p = "SmallRack" THEN 0 ELSE 90]

\* the modes chosen with the mode radio buttons
ModeChoices == { "single", "path" }

\* Python's floats are held as exact integers: a canvas coordinate as
\* thousandths of a pixel, a length as millimetres.  round(v, 3) is then the
\* rounding of a quotient to the nearest integer, and the product x * (new /
\* old) of update_scale is rounded to the nearest thousandth of a pixel.
\* n / d rounded to the nearest integer, halves to the even one (d > 0)
RoundDiv(n, d) ==
    LET q == n \div d
        r == n % d
    IN  IF 2 * r < d THEN q
        ELSE IF 2 * r > d THEN q + 1
        ELSE IF q % 2 = 0 THEN q ELSE q + 1

NoRack == [kind |-> "none"]

\* Rack(x, y, width_m, depth_m, rotation, rack_type)
Rack(x, y, width_m, depth_m, rotation, rack_type) ==
    [x |-> x, y |-> y, width_m |-> width_m, depth_m |-> depth_m,
     rotation |-> rotation, rack_type |-> rack_type]

\* to_dict with the axes not swapped
to_dict_unswapped(rack, ox, oy, sc) ==
    [type     |-> rack.rack_type,
     x        |-> RoundDiv(rack.x - ox * sc, sc),
     y        |-> RoundDiv(rack.y - oy * sc, sc),
     width_m  |-> rack.width_m,
     depth_m  |-> rack.depth_m,
     rotation |-> rack.rotation]

\* Rack.to_dict(origin_x_m, origin_y_m, scale): x and y in millimetres
to_dict(rack, ox, oy, sc) ==
    [type     |-> rack.rack_type,
     x        |-> RoundDiv(rack.y - oy * sc, sc),
     y        |-> RoundDiv(rack.x - ox * sc, sc),
     width_m  |-> rack.width_m,
     depth_m  |-> rack.depth_m,
     rotation |-> rack.rotation]

\* from_dict with the rotation left at 0
from_dict_no_rotation(data, ox, oy, sc) ==
    Rack((data.y + ox) * sc, (data.x + oy) * sc, data.width_m, data.depth_m,
         0, IF "type" \in DOMAIN data THEN data.type ELSE "SmallRack")

\* Rack.from_dict(data, origin_x_m, origin_y_m, scale)
from_dict(data, ox, oy, sc) ==
    Rack((data.y + ox) * sc, (data.x + oy) * sc, data.width_m, data.depth_m,
         IF "rotation" \in DOMAIN data THEN data.rotation ELSE 0,
         IF "type" \in DOMAIN data THEN data.type ELSE "SmallRack")

\* WarehouseDesigner.waypoints_to_dict
waypoints_to_dict(wps, ox, oy, sc) ==
    [i \in 1..Len(wps) |->
        [x |-> RoundDiv(wps[i][2] - oy * sc, sc),
         y |-> RoundDiv(wps[i][1] - ox * sc, sc)]]

\* WarehouseDesigner.waypoints_from_dict
waypoints_from_dict(data, ox, oy, sc) ==
    [i \in 1..Len(data) |-> <<(data[i].y + ox) * sc, (data[i].x + oy) * sc>>]

\* one line of a path TXT file: its text before the coordinates, and the coordinates
TxtLine(cmd, x, y) == [cmd |-> cmd, x |-> x, y |-> y]

\* export_path_txt's lines with the header line left out
export_lines_no_header(waypoints_world) ==
    [i \in 1..Len(waypoints_world) |->
        TxtLine("Character GoTo", waypoints_world[i].x, waypoints_world[i].y)]

\* the lines export_path_txt writes
export_lines(waypoints_world) ==
    <<TxtLine("Character Idle 10", 0, 0)>> \o
    [i \in 1..Len(waypoints_world) |->
        TxtLine("Character GoTo", waypoints_world[i].x, waypoints_world[i].y)]

\* the lines save_layout writes to the TXT file
layout_txt_lines(waypoints_world) ==
    <<TxtLine("Character Idle 10", 0, 0)>> \o
    [i \in 1..Len(waypoints_world) |->
        TxtLine("Character GoTo", waypoints_world[i].x, waypoints_world[i].y)]

NoFile == [written |-> FALSE]

\* __init__
DesignerInit ==
    /\ scale = 50
    /\ warehouse_width_m = 30
    /\ warehouse_height_m = 20
    /\ origin_x_m = 15000
    /\ origin_y_m = 10000
    /\ warehouse_var = "Small"
    /\ racks = <<>>
    /\ waypoints = <<>>
    /\ mode = "single"
    /\ selected_rack = NoRack
    /\ selected_rack_idx = -1
    /\ drag_start = <<>>
    /\ temp_line = FALSE
    /\ entries = [width |-> 2000, depth |-> 960, rotation |-> 0, preset |-> "SmallRack",
                  count |-> 5, rows |-> 3, spacing |-> 2500, row_spacing |-> 4000]
    /\ json_file = NoFile
    /\ txt_file = NoFile
    /\ export_file = NoFile
    /\ saved = NoFile
    /\ exported = NoFile
    /\ last_op = "init"
    /\ edits_after_write = 0
    /\ row_press_pending = FALSE

\* a file has been written
SomeFileWritten == json_file.written \/ export_file.written

\* an edit may be made, and is counted once a file exists
MayEdit == SomeFileWritten => edits_after_write < MaxEditsAfterWrite
CountEdit == edits_after_write' = IF SomeFileWritten THEN edits_after_write + 1
                                  ELSE edits_after_write

\* the bounds check without its upper limits
InBoundsNoUpper(x, y) ==
    /\ 0 <= x
    /\ 0 <= y

\* 0 <= x <= warehouse_width_m * scale and 0 <= y <= warehouse_height_m * scale
InBounds(x, y) ==
    /\ 0 <= x
    /\ x <= warehouse_width_m * scale * 1000
    /\ 0 <= y
    /\ y <= warehouse_height_m * scale * 1000

\* place_grid: the racks of the grid that lie in the warehouse, row by row
GridRacks(x, y) ==
    LET cells == [k \in 1..(entries.rows * entries.count) |->
                    <<x + ((k - 1) % entries.count) * entries.spacing * scale,
                      y + ((k - 1) \div entries.count) * entries.row_spacing * scale>>]
        kept  == SelectSeq(cells, LAMBDA c : InBounds(c[1], c[2]))
    IN  [k \in 1..Len(kept) |->
            Rack(kept[k][1], kept[k][2], entries.width, entries.depth,
                 entries.rotation, entries.preset)]

\* select_rack: the 0-based index of the first rack within one metre, -1 if none
\* (the distance is compared in tenths of a pixel)
RackAt(x, y) ==
    LET Tenths(v) == RoundDiv(v, 100)
        near == { i \in 1..Len(racks) :
                    /\ Tenths(racks[i].x - x) < scale * 10
                    /\ Tenths(x - racks[i].x) < scale * 10
                    /\ Tenths(racks[i].y - y) < scale * 10
                    /\ Tenths(y - racks[i].y) < scale * 10
                    /\ Tenths(racks[i].x - x) * Tenths(racks[i].x - x)
                         + Tenths(racks[i].y - y) * Tenths(racks[i].y - y)
                            < (scale * 10) * (scale * 10) }
    IN  IF near = {} THEN -1 ELSE (CHOOSE i \in near : \A j \in near : i <= j) - 1

\* update_scale
update_scale ==
    /\ DesignerFrame
    /\ UNCHANGED eventVars
    /\ MayEdit
    /\ \E new_scale \in ScaleChoices :
        /\ new_scale >= 10
        /\ new_scale <= 200
        /\ scale' = new_scale
        /\ racks' = [i \in 1..Len(racks) |->
                        [racks[i] EXCEPT !.x = RoundDiv(@ * new_scale, scale),
                                         !.y = RoundDiv(@ * new_scale, scale)]]
        /\ waypoints' = [i \in 1..Len(waypoints) |->
                            <<RoundDiv(waypoints[i][1] * new_scale, scale),
                              RoundDiv(waypoints[i][2] * new_scale, scale)>>]
    /\ last_op' = "edit"
    /\ CountEdit
    /\ UNCHANGED <<warehouse_width_m, warehouse_height_m, origin_x_m, origin_y_m,
                   warehouse_var, uiVars, fileVars>>

\* update_warehouse_preset, with apply_warehouse_size for a preset other than Custom
update_warehouse_preset ==
    /\ DesignerFrame
    /\ UNCHANGED eventVars
    /\ MayEdit
    /\ \E preset \in WarehouseChoices :
        /\ warehouse_var' = preset
        /\ IF preset # "Custom"
           THEN /\ warehouse_width_m' = warehouse_presets[preset][1]
                /\ warehouse_height_m' = warehouse_presets[preset][2]
           ELSE UNCHANGED <<warehouse_width_m, warehouse_height_m>>
    /\ last_op' = "edit"
    /\ CountEdit
    /\ UNCHANGED <<scale, origin_x_m, origin_y_m, racks, waypoints, uiVars, fileVars>>

\* set_origin_center
set_origin_center ==
    /\ DesignerFrame
    /\ UNCHANGED eventVars
    /\ MayEdit
    /\ origin_x_m' = warehouse_width_m * 500
    /\ origin_y_m' = warehouse_height_m * 500
    /\ last_op' = "edit"
    /\ CountEdit
    /\ UNCHANGED <<scale, warehouse_width_m, warehouse_height_m, warehouse_var, racks,
                   waypoints, uiVars, fileVars>>

\* update_dimensions: a rack preset is chosen, and a rotation typed with it
update_dimensions ==
    /\ DesignerFrame
    /\ UNCHANGED eventVars
    /\ MayEdit
    /\ \E preset \in DOMAIN rack_presets :
        entries' = [entries EXCEPT !.preset = preset,
                                   !.width = rack_presets[preset][1],
                                   !.depth = rack_presets[preset][2],
                                   !.rotation = RotationTyped[preset]]
    /\ last_op' = "edit"
    /\ CountEdit
    /\ UNCHANGED <<layoutVars, mode, selected_rack, selected_rack_idx, drag_start,
                   temp_line, fileVars>>

\* change_mode with mode_var set to m
change_mode_to(m) ==
    /\ DesignerFrame
    /\ UNCHANGED eventVars
    /\ MayEdit
    /\ mode' = m
    /\ selected_rack' = NoRack
    /\ selected_rack_idx' = -1
    /\ last_op' = "edit"
    /\ CountEdit
    /\ UNCHANGED <<layoutVars, drag_start, temp_line, entries, fileVars>>

\* change_mode
change_mode == \E m \in ModeChoices : change_mode_to(m)

\* canvas_click at the canvas point p, with place_rack, place_grid, select_rack
\* and add_waypoint; max_racks caps the racks and max_waypoints the waypoints
canvas_click_at(p, max_racks, max_waypoints) ==
    /\ DesignerFrame
    /\ MayEdit
    /\ LET x == p[1] * 1000
           y == p[2] * 1000
       IN  /\ row_press_pending' = (row_press_pending \/ (InBounds(x, y) /\ mode = "row"))
           /\
            IF ~InBounds(x, y)
            THEN UNCHANGED <<racks, waypoints, selected_rack, selected_rack_idx,
                             drag_start, temp_line, entries>>
            ELSE CASE mode = "single" ->
                        /\ Len(racks) < max_racks
                        /\ racks' = Append(racks, Rack(x, y, entries.width, entries.depth,
                                                       entries.rotation, entries.preset))
                        /\ UNCHANGED <<waypoints, selected_rack, selected_rack_idx,
                                       drag_start, temp_line, entries>>
                   [] mode = "row" ->
                        /\ drag_start' = <<x, y>>
                        /\ temp_line' = TRUE
                        /\ UNCHANGED <<racks, waypoints, selected_rack, selected_rack_idx,
                                       entries>>
                   [] mode = "grid" ->
                        /\ Len(racks) + Len(GridRacks(x, y)) <= max_racks
                        /\ racks' = racks \o GridRacks(x, y)
                        /\ UNCHANGED <<waypoints, selected_rack, selected_rack_idx,
                                       drag_start, temp_line, entries>>
                   [] mode = "select" ->
                        LET idx == RackAt(x, y)
                        IN  /\ selected_rack_idx' = idx
                            /\ selected_rack' =
                                 IF idx = -1 THEN NoRack ELSE [kind |-> "listed"]
                            /\ entries' =
                                 IF idx = -1 THEN entries
                                 ELSE [entries EXCEPT !.width = racks[idx + 1].width_m,
                                                      !.depth = racks[idx + 1].depth_m,
                                                      !.rotation = racks[idx + 1].rotation]
                            /\ drag_start' = IF idx = -1 THEN drag_start ELSE <<x, y>>
                            /\ UNCHANGED <<racks, waypoints, temp_line>>
                   [] mode = "path" ->
                        /\ Len(waypoints) < max_waypoints
                        /\ waypoints' = Append(waypoints, <<x, y>>)
                        /\ UNCHANGED <<racks, selected_rack, selected_rack_idx,
                                       drag_start, temp_line, entries>>
    /\ last_op' = "edit"
    /\ CountEdit
    /\ UNCHANGED <<scale, warehouse_width_m, warehouse_height_m, origin_x_m, origin_y_m,
                   warehouse_var, mode, fileVars>>

\* canvas_click
canvas_click == \E p \in ClickPoints : canvas_click_at(p, MaxLayoutItems, MaxLayoutItems)

\* the designer state a file is written from
Layout ==
    [warehouse_type |-> warehouse_var, scale |-> scale,
     warehouse_width_m |-> warehouse_width_m, warehouse_height_m |-> warehouse_height_m,
     origin_x_m |-> origin_x_m, origin_y_m |-> origin_y_m,
     racks |-> racks, waypoints |-> waypoints, written |-> TRUE]

\* save_layout with a file name chosen: the JSON, and the TXT if there are waypoints
save_layout ==
    /\ DesignerFrame
    /\ UNCHANGED eventVars
    /\ json_file' =
         [written            |-> TRUE,
          warehouse_type     |-> warehouse_var,
          scale              |-> scale,
          warehouse_width_m  |-> warehouse_width_m,
          warehouse_height_m |-> warehouse_height_m,
          world_origin       |-> [x |-> origin_x_m, y |-> origin_y_m],
          racks              |-> [i \in 1..Len(racks) |->
                                    to_dict(racks[i], origin_x_m, origin_y_m, scale)],
          path               |-> [waypoints |->
                                    waypoints_to_dict(waypoints, origin_x_m, origin_y_m,
                                                      scale)]]
    /\ txt_file' =
         IF waypoints # <<>>
         THEN [written |-> TRUE,
               lines |-> layout_txt_lines(waypoints_to_dict(waypoints, origin_x_m,
                                                            origin_y_m, scale))]
         ELSE txt_file
    /\ saved' = Layout
    /\ last_op' = "save_layout"
    /\ UNCHANGED <<layoutVars, uiVars, export_file, exported, edits_after_write>>

\* d.get(k, default)
DictGetOr(d, k, default) == IF k \in DOMAIN d THEN d[k] ELSE default

\* the number of leading elements of seq that have all the keys
CompletePrefix(seq, keys) ==
    LET good == { n \in 0..Len(seq) : \A i \in 1..n : keys \subseteq DOMAIN seq[i] }
    IN  CHOOSE n \in good : \A m \in good : m <= n

\* The body of load_layout and of load_preset_template on the content of the
\* chosen file: the layout the designer is left with, and in "written"
\* whether the body ran to its end.  A file that cannot be opened or parsed
\* has the key "invalid".
LoadData(data) ==
    IF "invalid" \in DOMAIN data THEN [Layout EXCEPT !.written = FALSE]
    ELSE
        LET sc      == DictGetOr(data, "scale", 50)
            width   == DictGetOr(data, "warehouse_width_m", 40)
            height  == DictGetOr(data, "warehouse_height_m", 30)
            type    == DictGetOr(data, "warehouse_type", "Custom")
            origin  == DictGetOr(data, "world_origin", [x |-> width * 500, y |-> height * 500])
            ox      == IF "x" \in DOMAIN origin THEN origin.x ELSE origin_x_m
            oy      == IF {"x", "y"} \subseteq DOMAIN origin THEN origin.y ELSE origin_y_m
            set     == [warehouse_type |-> type, scale |-> sc,
                        warehouse_width_m |-> width, warehouse_height_m |-> height,
                        origin_x_m |-> ox, origin_y_m |-> oy,
                        racks |-> <<>>, waypoints |-> <<>>, written |-> FALSE]
        IN  IF ~({"x", "y"} \subseteq DOMAIN origin) \/ "racks" \notin DOMAIN data
            THEN set
            ELSE
                LET n      == CompletePrefix(data.racks, {"x", "y", "width_m", "depth_m"})
                    loaded == [i \in 1..n |-> from_dict(data.racks[i], ox, oy, sc)]
                IN  IF n < Len(data.racks)
                    THEN [set EXCEPT !.racks = loaded]
                    ELSE IF "path" \in DOMAIN data /\ "waypoints" \in DOMAIN data.path
                    THEN
                        LET wps == data.path.waypoints
                            m   == CompletePrefix(wps, {"x", "y"})
                        IN  [set EXCEPT !.racks = loaded,
                                        !.waypoints = waypoints_from_dict(SubSeq(wps, 1, m),
                                                                          ox, oy, sc),
                                        !.written = (m = Len(wps))]
                    ELSE [set EXCEPT !.racks = loaded, !.written = TRUE]

\* a load from the content of the chosen file; handler names the handler
LoadFrom(data, handler) ==
    \E result \in { LoadData(data) } :
        /\ scale' = result.scale
        /\ warehouse_width_m' = result.warehouse_width_m
        /\ warehouse_height_m' = result.warehouse_height_m
        /\ warehouse_var' = result.warehouse_type
        /\ origin_x_m' = result.origin_x_m
        /\ origin_y_m' = result.origin_y_m
        /\ racks' = result.racks
        /\ waypoints' = result.waypoints
        /\ selected_rack' = IF "invalid" \in DOMAIN data \/ selected_rack = NoRack
                            THEN selected_rack
                            ELSE IF selected_rack.kind = "listed"
                            THEN [kind |-> "unlisted", rack |-> racks[selected_rack_idx + 1]]
                            ELSE selected_rack
        /\ last_op' = IF result.written THEN handler ELSE "load_failed"
        /\ UNCHANGED <<mode, selected_rack_idx, drag_start, temp_line, entries, fileVars,
                       edits_after_write, row_press_pending>>

\* load_layout of the file save_layout wrote
load_layout ==
    /\ DesignerFrame
    /\ json_file.written
    /\ LoadFrom(json_file, "load_layout")

\* export_path_txt with a file name chosen
export_path_txt ==
    /\ DesignerFrame
    /\ UNCHANGED eventVars
    /\ IF waypoints = <<>>
       THEN UNCHANGED <<export_file, exported>>
       ELSE /\ export_file' =
                 [written |-> TRUE,
                  lines |-> export_lines(waypoints_to_dict(waypoints, origin_x_m,
                                                           origin_y_m, scale))]
            /\ exported' = Layout
    /\ last_op' = "export_path_txt"
    /\ UNCHANGED <<layoutVars, uiVars, json_file, txt_file, saved, edits_after_write>>


\* Largest number of racks placed by hand in the designer
MaxDesignerItems == 1

\* the canvas points of the press, motion and release events, in pixels
CanvasPoints == { <<1300, 100>>, <<1490, 990>>, <<1600, 100>> }

\* every value of mode_var
AllModes == { "single", "row", "grid", "select", "path" }

\* the layout files on disk, and the files of the presets folder: a complete
\* layout, a file that is not JSON, a layout without the key 'racks', and a
\* layout whose second rack has no 'width_m'
LayoutFiles ==
    { [warehouse_type |-> "Big", scale |-> 30, warehouse_width_m |-> 54,
       warehouse_height_m |-> 32, world_origin |-> [x |-> 27000, y |-> 16000],
       racks |-> << [type |-> "Custom", x |-> -15000, y |-> -26000, width_m |-> 1000,
                     depth_m |-> 1000, rotation |-> 90] >>,
       path |-> [waypoints |-> << [x |-> -15000, y |-> -26000] >>]],
      [invalid |-> TRUE],
      [scale |-> 30, warehouse_width_m |-> 54, warehouse_height_m |-> 32],
      [racks |-> << [x |-> 0, y |-> 0, width_m |-> 2000, depth_m |-> 960],
                    [x |-> 1000, y |-> 1000] >>] }

\* the integer square root of n, by bisection between lo and hi
RECURSIVE ISqrtBetween(_, _, _)
ISqrtBetween(n, lo, hi) ==
    IF lo >= hi THEN lo
    ELSE LET mid == (lo + hi + 1) \div 2
         IN  IF mid * mid <= n THEN ISqrtBetween(n, mid, hi)
             ELSE ISqrtBetween(n, lo, mid - 1)

\* math.sqrt, to the integer below
ISqrt(n) == ISqrtBetween(n, 0, 46340)

\* place_row(x1, y1, x2, y2): the racks of the row that lie in the warehouse,
\* in order.  The length is taken in tenths of a pixel and the unit vector in
\* thousandths.
RowRacks(x1, y1, x2, y2) ==
    LET dx     == RoundDiv(x2 - x1, 100)
        dy     == RoundDiv(y2 - y1, 100)
        length == ISqrt(dx * dx + dy * dy)
    IN  IF length < 10 THEN <<>>
        ELSE
            LET ux    == RoundDiv(dx * 1000, length)
                uy    == RoundDiv(dy * 1000, length)
                cells == [k \in 1..entries.count |->
                            <<x1 + RoundDiv(ux * entries.spacing * scale * (k - 1), 1000),
                              y1 + RoundDiv(uy * entries.spacing * scale * (k - 1), 1000)>>]
                kept  == SelectSeq(cells, LAMBDA c : InBounds(c[1], c[2]))
            IN  [k \in 1..Len(kept) |->
                    Rack(kept[k][1], kept[k][2], entries.width, entries.depth,
                         entries.rotation, entries.preset)]

\* the rack object self.selected_rack refers to
SelectedRack ==
    IF selected_rack.kind = "listed" THEN racks[selected_rack_idx + 1]
    ELSE selected_rack.rack

\* change_mode with any of the modes
change_mode_any == \E m \in AllModes : change_mode_to(m)

\* canvas_click at any of the canvas points; the waypoints here are those a
\* load brings, none is added by hand
canvas_click_any == \E p \in CanvasPoints : canvas_click_at(p, MaxDesignerItems, 0)

\* canvas_drag
canvas_drag ==
    /\ DesignerFrame
    /\ UNCHANGED eventVars
    /\ \E p \in CanvasPoints :
        LET x == p[1] * 1000
            y == p[2] * 1000
        IN  IF mode = "row" /\ drag_start # <<>> /\ temp_line
            THEN UNCHANGED <<racks, selected_rack, drag_start>>
            ELSE IF mode = "select" /\ selected_rack # NoRack /\ drag_start # <<>>
            THEN
                LET new_x == SelectedRack.x + (x - drag_start[1])
                    new_y == SelectedRack.y + (y - drag_start[2])
                IN  IF InBounds(new_x, new_y)
                    THEN /\ drag_start' = <<x, y>>
                         /\ IF selected_rack.kind = "listed"
                            THEN /\ racks' = [racks EXCEPT ![selected_rack_idx + 1].x = new_x,
                                                           ![selected_rack_idx + 1].y = new_y]
                                 /\ UNCHANGED selected_rack
                            ELSE /\ selected_rack' = [selected_rack EXCEPT !.rack.x = new_x,
                                                                          !.rack.y = new_y]
                                 /\ UNCHANGED racks
                    ELSE UNCHANGED <<racks, selected_rack, drag_start>>
            ELSE UNCHANGED <<racks, selected_rack, drag_start>>
    /\ last_op' = "edit"
    /\ UNCHANGED <<scale, warehouse_width_m, warehouse_height_m, origin_x_m, origin_y_m,
                   warehouse_var, waypoints, mode, selected_rack_idx, temp_line, entries,
                   fileVars, edits_after_write>>

\* canvas_release, with place_row
canvas_release ==
    /\ DesignerFrame
    /\ \E p \in CanvasPoints :
        LET x == p[1] * 1000
            y == p[2] * 1000
            row == mode = "row" /\ drag_start # <<>>
        IN  /\ IF row
               THEN /\ Len(racks) + Len(RowRacks(drag_start[1], drag_start[2], x, y))
                          <= MaxDesignerItems
                    /\ racks' = racks \o RowRacks(drag_start[1], drag_start[2], x, y)
                    /\ temp_line' = FALSE
                    /\ drag_start' = <<>>
               ELSE IF mode = "select"
               THEN /\ drag_start' = <<>>
                    /\ UNCHANGED <<racks, temp_line>>
               ELSE UNCHANGED <<racks, temp_line, drag_start>>
    /\ row_press_pending' = FALSE
    /\ last_op' = "canvas_release"
    /\ UNCHANGED <<scale, warehouse_width_m, warehouse_height_m, origin_x_m, origin_y_m,
                   warehouse_var, waypoints, mode, selected_rack, selected_rack_idx, entries,
                   fileVars, edits_after_write>>

\* delete_selected; racks.pop raises IndexError for an index past the list
delete_selected ==
    /\ DesignerFrame
    /\ UNCHANGED eventVars
    /\ IF selected_rack # NoRack /\ selected_rack_idx # -1
       THEN IF selected_rack_idx < Len(racks)
            THEN /\ racks' = [i \in 1..(Len(racks) - 1) |->
                                IF i <= selected_rack_idx THEN racks[i] ELSE racks[i + 1]]
                 /\ selected_rack' = NoRack
                 /\ selected_rack_idx' = -1
            ELSE UNCHANGED <<racks, selected_rack, selected_rack_idx>>
       ELSE UNCHANGED <<racks, selected_rack, selected_rack_idx>>
    /\ last_op' = "edit"
    /\ UNCHANGED <<scale, warehouse_width_m, warehouse_height_m, origin_x_m, origin_y_m,
                   warehouse_var, waypoints, mode, drag_start, temp_line, entries,
                   fileVars, edits_after_write>>

\* duplicate_selected; the copy may be one rack more than those placed by hand
duplicate_selected ==
    /\ DesignerFrame
    /\ UNCHANGED eventVars
    /\ IF selected_rack # NoRack
       THEN /\ Len(racks) <= MaxDesignerItems
            /\ racks' = Append(racks, Rack(SelectedRack.x + 20000, SelectedRack.y + 20000,
                                           SelectedRack.width_m, SelectedRack.depth_m,
                                           SelectedRack.rotation, SelectedRack.rack_type))
       ELSE UNCHANGED racks
    /\ last_op' = "edit"
    /\ UNCHANGED <<scale, warehouse_width_m, warehouse_height_m, origin_x_m, origin_y_m,
                   warehouse_var, waypoints, uiVars, fileVars, edits_after_write>>

\* clear_all, confirmed in the dialog
clear_all ==
    /\ DesignerFrame
    /\ UNCHANGED eventVars
    /\ racks' = <<>>
    /\ waypoints' = <<>>
    /\ selected_rack' = NoRack
    /\ selected_rack_idx' = -1
    /\ last_op' = "edit"
    /\ UNCHANGED <<scale, warehouse_width_m, warehouse_height_m, origin_x_m, origin_y_m,
                   warehouse_var, mode, drag_start, temp_line, entries, fileVars,
                   edits_after_write>>

\* load_layout of a layout file on disk
load_layout_file ==
    /\ DesignerFrame
    /\ \E data \in LayoutFiles : LoadFrom(data, "load_layout")

\* load_preset_template of the preset chosen in the list
load_preset_template ==
    /\ DesignerFrame
    /\ \E data \in LayoutFiles : LoadFrom(data, "load_preset_template")

\* |a - b| is within the rounding of a coordinate exported in millimetres:
\* half a millimetre, that is sc / 2 thousandths of a pixel
WithinRounding(a, b, sc) ==
    /\ 2 * (a - b) <= sc
    /\ 2 * (b - a) <= sc

\* what load_layout restores apart from the waypoints
LoadRestoresAllButWaypoints ==
    /\ scale = saved.scale
    /\ warehouse_width_m = saved.warehouse_width_m
    /\ warehouse_height_m = saved.warehouse_height_m
    /\ origin_x_m = saved.origin_x_m
    /\ origin_y_m = saved.origin_y_m
    /\ warehouse_var = saved.warehouse_type
    /\ Len(racks) = Len(saved.racks)
    /\ \A i \in 1..Len(racks) :
        /\ racks[i].rack_type = saved.racks[i].rack_type
        /\ racks[i].width_m = saved.racks[i].width_m
        /\ racks[i].depth_m = saved.racks[i].depth_m
        /\ racks[i].rotation = saved.racks[i].rotation
        /\ WithinRounding(racks[i].x, saved.racks[i].x, scale)
        /\ WithinRounding(racks[i].y, saved.racks[i].y, scale)

IsRounded(v, n, d) ==
    /\ 2 * (v * d - n) <= d
    /\ 2 * (n - v * d) <= d

\* C4: in the saved JSON a rack at canvas (px, py) has x = py/s - oy and
\* y = px/s - ox, each rounded to 3 decimals of a metre; every waypoint is
\* exported by the same transform, and a rack and a waypoint at the same
\* canvas position have the same exported (x, y).
C4_AxesSwappedForRacksAndWaypoints ==
    json_file.written =>
        /\ \A i \in 1..Len(saved.racks) :
            /\ IsRounded(json_file.racks[i].x,
                         saved.racks[i].y - saved.origin_y_m * saved.scale, saved.scale)
            /\ IsRounded(json_file.racks[i].y,
                         saved.racks[i].x - saved.origin_x_m * saved.scale, saved.scale)
        /\ \A j \in 1..Len(saved.waypoints) :
            /\ IsRounded(json_file.path.waypoints[j].x,
                         saved.waypoints[j][2] - saved.origin_y_m * saved.scale, saved.scale)
            /\ IsRounded(json_file.path.waypoints[j].y,
                         saved.waypoints[j][1] - saved.origin_x_m * saved.scale, saved.scale)
        /\ \A i \in 1..Len(saved.racks), j \in 1..Len(saved.waypoints) :
            <<saved.racks[i].x, saved.racks[i].y>> = saved.waypoints[j] =>
                /\ json_file.racks[i].x = json_file.path.waypoints[j].x
                /\ json_file.racks[i].y = json_file.path.waypoints[j].y

\* a rack and a waypoint at the same canvas position, off the diagonal and
\* not on a whole millimetre, were saved
C4_Witness ==
    /\ json_file.written
    /\ \E i \in 1..Len(saved.racks), j \in 1..Len(saved.waypoints) :
        /\ <<saved.racks[i].x, saved.racks[i].y>> = saved.waypoints[j]
        /\ json_file.racks[i].x # json_file.racks[i].y
        /\ saved.racks[i].x % saved.scale # 0

\* the lines of a path file are the header and one GoTo line per waypoint
\* of the layout it was written from, in order, with the waypoint's
\* coordinates from waypoints_to_dict
IsPathFileOf(lines, layout) ==
    LET world == waypoints_to_dict(layout.waypoints, layout.origin_x_m, layout.origin_y_m,
                                   layout.scale)
    IN  /\ Len(lines) = Len(layout.waypoints) + 1
        /\ lines[1].cmd = "Character Idle 10"
        /\ \A i \in 1..Len(layout.waypoints) :
            lines[i + 1] = TxtLine("Character GoTo", world[i].x, world[i].y)

\* C9, the files: the file of export_path_txt comes from n >= 1 waypoints
\* and is the header and their n GoTo lines; so is the TXT save_layout has
\* just written; the two are equal when written from the same waypoints,
\* scale and origin.
C9_FilesWritten ==
    /\ export_file.written =>
        /\ Len(exported.waypoints) >= 1
        /\ IsPathFileOf(export_file.lines, exported)
    /\ (last_op = "save_layout" /\ saved.waypoints # <<>>) =>
        /\ txt_file.written
        /\ IsPathFileOf(txt_file.lines, saved)
        /\ ( /\ export_file.written
             /\ exported.waypoints = saved.waypoints
             /\ exported.scale = saved.scale
             /\ exported.origin_x_m = saved.origin_x_m
             /\ exported.origin_y_m = saved.origin_y_m ) =>
                txt_file.lines = export_file.lines

\* C9, no waypoints: a step of export_path_txt or save_layout taken with no
\* waypoints leaves its TXT file as it was
C9_NothingWrittenWithoutWaypoints ==
    (waypoints = <<>> /\ last_op' \in {"export_path_txt", "save_layout"}) =>
        /\ export_file' = export_file
        /\ txt_file' = txt_file

MaxRtxPrims == 3

\* the path arguments of the command and of the other prims of the scene
RtxPathArgs == { "/sensor", "/RtxLidar" }

\* the parent arguments; "" stands for None
RtxParentArgs == { "", "/World" }

\* a prim path: the parent, the name, and the number appended to the name
\* (0 for none, n for the suffix _0n)
RtxPath(parent, name, n) == [parent |-> parent, name |-> name, n |-> n]

RtxPaths == { pr.path : pr \in rtxStage }

\* get_next_free_path(path, parent): the path under the parent, with the
\* smallest number appended that makes it a path no prim of the stage has
get_next_free_path(path, parent) ==
    LET free == { n \in 0..Cardinality(rtxStage) : RtxPath(parent, path, n) \notin RtxPaths }
    IN  RtxPath(parent, path, CHOOSE n \in free : \A m \in free : n <= m)

\* UsdGeom.Camera.Define(stage, path): the stage with a Camera prim at the
\* path; a prim already there is redefined as a Camera
RtxDefineCamera(path) ==
    IF path \in RtxPaths
    THEN { IF pr.path = path
           THEN [pr EXCEPT !.kind = "Camera", !.defined = @ + 1]
           ELSE pr : pr \in rtxStage }
    ELSE rtxStage \union
            { [path |-> path, id |-> rtxNextId + 1, kind |-> "Camera", defined |-> 1,
               attrs |-> <<>>] }

\* do() defining the prim at the path it was given
prim_path_as_given(path, parent) == RtxPath(parent, path, 0)

\* self._prim_path = get_next_free_path(self._path, self._parent)
prim_path(path, parent) == get_next_free_path(path, parent)

RtxInit ==
    /\ rtxStage = {}
    /\ rtxNextId = 0
    /\ rtxLog = <<>>

\* a prim that is not a sensor is put on the stage, as the test's VisualCuboid
RtxDefineOther ==
    /\ RtxFrame
    /\ rtxNextId < MaxRtxPrims
    /\ \E name \in RtxPathArgs, parent \in RtxParentArgs :
        /\ RtxPath(parent, name, 0) \notin RtxPaths
        /\ rtxStage' = rtxStage \union
              { [path |-> RtxPath(parent, name, 0), id |-> rtxNextId + 1, kind |-> "Cube",
                 defined |-> 1, attrs |-> <<>>] }
    /\ rtxNextId' = rtxNextId + 1
    /\ UNCHANGED rtxLog

\* delete_prim(path) of a prim of the stage
RtxDeletePrim ==
    /\ RtxFrame
    /\ \E pr \in rtxStage : rtxStage' = rtxStage \ {pr}
    /\ UNCHANGED <<rtxNextId, rtxLog>>

\* IsaacSensorCreateRtxLidar.do
IsaacSensorCreateRtxLidar_do ==
    /\ RtxFrame
    /\ rtxNextId < MaxRtxPrims
    /\ \E path \in RtxPathArgs, parent \in RtxParentArgs :
        LET target  == prim_path(path, parent)
            defined == RtxDefineCamera(target)
            created == CHOOSE pr \in defined : pr.path = target
            prim    == [created EXCEPT !.attrs =
                          <<"cameraSensorType", "sensorModelPluginName", "sensorModelConfig">>]
        IN  /\ rtxStage' = (defined \ {created}) \union {prim}
            /\ rtxNextId' = IF target \in RtxPaths THEN rtxNextId ELSE rtxNextId + 1
            /\ rtxLog' = Append(rtxLog,
                            [path |-> path, parent |-> parent,
                             occupied |-> RtxPaths,
                             returned |-> [path |-> prim.path, id |-> prim.id]])

\* C12: every execution of IsaacSensorCreateRtxLidar returned a prim at a
\* path of the given parent and name that no prim of the stage had, no prim
\* of the stage has been defined twice, any two executions returned two
\* distinct prims, and the prim the latest execution returned is on the
\* stage as the Camera prim with the sensor attributes.
C12_CreatesAtAFreePath ==
    /\ \A pr \in rtxStage : pr.defined = 1
    /\ \A k \in 1..Len(rtxLog) :
        /\ rtxLog[k].returned.path \notin rtxLog[k].occupied
        /\ rtxLog[k].returned.path.parent = rtxLog[k].parent
        /\ rtxLog[k].returned.path.name = rtxLog[k].path
        /\ \A j \in 1..Len(rtxLog) : j # k => rtxLog[j].returned.id # rtxLog[k].returned.id
    /\ \A k \in 1..Len(rtxLog) :
        LET ret == rtxLog[k].returned
        IN  \A pr \in rtxStage :
                pr.path = ret.path /\ pr.id = ret.id => pr.kind = "Camera" /\ pr.attrs # <<>>

\* two executions with the same arguments, the first at a path a cube had
\* taken, with both sensors still on the stage
C12_Witness ==
    /\ Len(rtxLog) >= 2
    /\ rtxLog[1].path = rtxLog[2].path
    /\ rtxLog[1].parent = rtxLog[2].parent
    /\ RtxPath(rtxLog[1].parent, rtxLog[1].path, 0) \in rtxLog[1].occupied
    /\ rtxLog[1].returned.path # rtxLog[2].returned.path
    /\ \E a, b \in rtxStage :
        /\ a.id = rtxLog[1].returned.id
        /\ b.id = rtxLog[2].returned.id

(***************************************************************************)
(* Specifications, one per program                                         *)
(***************************************************************************)

Init ==
    /\ YamlInit
    /\ PyInit
    /\ PlInit
    /\ IraInit
    /\ DesignerInit
    /\ RtxInit

NextYaml ==
    \/ YamlWriteLine
    \/ YamlMainRead
    \/ YamlMainReplace

SpecYaml == Init /\ [][NextYaml]_vars

NextPy ==
    \/ PyWriteLine
    \/ PyUpdate
    \/ PyMain

SpecPy == Init /\ [][NextPy]_vars
NextPl ==
    \/ PlWriteConfig
    \/ PlWriteLayout
    \/ PlWriteRack
    \/ PlReadInputs
    \/ PlCheckWarehouse
    \/ PlCheckRackAsset
    \/ PlLaunch
    \/ PlOpenStage
    \/ PlPlaceRack
    \/ PlReport

SpecPl == Init /\ [][NextPl]_vars
NextIra ==
    \/ IraMain
    \/ IraLoadConfig
    \/ IraUpdateScene
    \/ IraUpdateCharacter
    \/ IraSave

SpecIra == Init /\ [][NextIra]_vars
NextLayout ==
    \/ update_scale
    \/ update_warehouse_preset
    \/ set_origin_center
    \/ update_dimensions
    \/ change_mode
    \/ canvas_click
    \/ save_layout
    \/ load_layout
    \/ export_path_txt

SpecLayout == Init /\ [][NextLayout]_vars
NextRtx ==
    \/ RtxDefineOther
    \/ RtxDeletePrim
    \/ IsaacSensorCreateRtxLidar_do

SpecRtx == Init /\ [][NextRtx]_vars

\* place_racks.yaml with a warehouse path for each type and a rack asset path
PlUsableConfig ==
    [warehouse_usd_file |-> [present |-> TRUE,
                             map |-> [k \in {"small", "big"} |-> "wh.usd"]],
     rack_asset_file    |-> [present |-> TRUE,
                             map |-> [k \in {"narrow_standard"} |-> "rack.usd"]]]

\* the rack record read with 'x' and 'y' taken from each other's key
PlRackRecordOfSwapped(rack) ==
    [hasXY    |-> {"x", "y"} \subseteq DOMAIN rack,
     x        |-> IF "y" \in DOMAIN rack THEN rack.y ELSE 0,
     y        |-> IF "x" \in DOMAIN rack THEN rack.x ELSE 0,
     rotation |-> IF "rotation" \in DOMAIN rack THEN Given(rack.rotation) ELSE Absent]

\* what the loop reads of one rack of the JSON: rack["x"], rack["y"], rack["rotation"]
PlRackRecordOf(rack) ==
    [hasXY    |-> {"x", "y"} \subseteq DOMAIN rack,
     x        |-> IF "x" \in DOMAIN rack THEN rack.x ELSE 0,
     y        |-> IF "y" \in DOMAIN rack THEN rack.y ELSE 0,
     rotation |-> IF "rotation" \in DOMAIN rack THEN Given(rack.rotation) ELSE Absent]

\* what the script reads of the JSON: data.get("warehouse_type", ...),
\* data["scale"], data["racks"]
PlLayoutOf(data) ==
    [warehouse_type |-> IF "warehouse_type" \in DOMAIN data
                        THEN Given(data.warehouse_type) ELSE Absent,
     hasScale       |-> "scale" \in DOMAIN data,
     hasRacks       |-> "racks" \in DOMAIN data,
     racks          |-> IF "racks" \in DOMAIN data
                        THEN [i \in 1..Len(data.racks) |-> PlRackRecordOf(data.racks[i])]
                        ELSE <<>>]

\* the designer is used until the rack placer is started
DesignLayout ==
    /\ plPc = "config"
    /\ \/ update_scale
       \/ update_warehouse_preset
       \/ set_origin_center
       \/ update_dimensions
       \/ canvas_click
       \/ save_layout

\* the rack placer is started with json_file_path naming the file save_layout wrote
PlReadDesignerFile ==
    /\ PlFrame
    /\ plPc = "config"
    /\ json_file.written
    /\ plConfig' = PlUsableConfig
    /\ plLayout' = PlLayoutOf(json_file)
    /\ plPc' = "racks"
    /\ UNCHANGED PlRest

\* C13: selected_rack is None exactly when selected_rack_idx is None, and
\* otherwise selected_rack_idx is an index of racks and racks[selected_rack_idx]
\* is the selected rack; this holds after every handler, load_layout,
\* load_preset_template and clear_all included.
C13_SelectionConsistent ==
    /\ (selected_rack = NoRack) <=> (selected_rack_idx = -1)
    /\ selected_rack # NoRack =>
          /\ selected_rack.kind = "listed"
          /\ selected_rack_idx \in 0..(Len(racks) - 1)

\* C14: a load_layout or load_preset_template that fails, for whatever reason,
\* leaves racks, waypoints, scale, the warehouse dimensions and the origin as
\* they were.
C14_FailedLoadChangesNothing ==
    [][last_op' = "load_failed" =>
         /\ racks' = racks
         /\ waypoints' = waypoints
         /\ scale' = scale
         /\ warehouse_width_m' = warehouse_width_m
         /\ warehouse_height_m' = warehouse_height_m
         /\ origin_x_m' = origin_x_m
         /\ origin_y_m' = origin_y_m]_vars

\* the canvas position (x, y), in thousandths of a pixel, lies in the rectangle
\* from (0, 0) to (warehouse_width_m * scale, warehouse_height_m * scale)
InWarehouseRectangle(x, y) ==
    /\ x \in 0..(warehouse_width_m * scale * 1000)
    /\ y \in 0..(warehouse_height_m * scale * 1000)

\* C15: a click outside the warehouse rectangle changes nothing of the designer
\* in any mode, and every rack that a click (place_rack, place_grid), a release
\* (place_row) or a select-mode drag adds or moves is at a position inside the
\* rectangle.
C15_PlacementStaysInside ==
    [][/\ \A p \in CanvasPoints :
            (~InWarehouseRectangle(p[1] * 1000, p[2] * 1000)
                /\ canvas_click_at(p, MaxDesignerItems, 0))
            => UNCHANGED <<layoutVars, uiVars>>
       /\ (canvas_click_any \/ canvas_drag \/ canvas_release) =>
            /\ Len(racks') >= Len(racks)
            /\ \A i \in 1..Len(racks') :
                 (i > Len(racks) \/ racks'[i] # racks[i])
                 => InWarehouseRectangle(racks'[i].x, racks'[i].y)
            /\ selected_rack' # selected_rack /\ selected_rack'.kind = "unlisted"
                 => InWarehouseRectangle(selected_rack'.rack.x, selected_rack'.rack.y)]_vars

\* place_row has run from a press at (1490, 990) and kept only the first rack
\* of the row, the others lying outside the warehouse
C15_Witness ==
    /\ last_op = "canvas_release"
    /\ mode = "row"
    /\ drag_start = <<>>
    /\ Len(racks) = 1
    /\ racks[1].x = 1490000
    /\ racks[1].y = 990000

\* C16: after any sequence of designer operations every rack of the layout has
\* 0 <= x <= warehouse_width_m * scale and 0 <= y <= warehouse_height_m * scale.
C16_RacksInsideWarehouse ==
    \A i \in 1..Len(racks) : InWarehouseRectangle(racks[i].x, racks[i].y)

\* C17: place_row runs only on a release that follows a press made in row mode
\* inside the warehouse, with no other release in between; and after every
\* release handled in row mode drag_start is None and the temporary line is
\* deleted.
C17_RowDragStateMachine ==
    [][last_op' = "canvas_release" /\ mode = "row" =>
         /\ drag_start # <<>> => row_press_pending
         /\ drag_start' = <<>>
         /\ ~temp_line']_vars

\* C18: every layout JSON that save_layout writes has the fields the rack placer
\* reads without a default ('scale', 'racks', and 'x', 'y', 'rotation' of each
\* rack), so the placer started on such a file never ends with a missing-key
\* error, and the translation it sets on the prim of rack i is exactly the
\* (x, y) the designer exported for rack i.
C18_PlacerReadsDesignerFile ==
    /\ json_file.written =>
          /\ {"scale", "racks"} \subseteq DOMAIN json_file
          /\ \A i \in 1..Len(json_file.racks) :
                {"x", "y", "rotation"} \subseteq DOMAIN json_file.racks[i]
    /\ plPc # "config" =>
          /\ plExc # "KeyError"
          /\ \A k \in 1..Len(plPrims) :
                \E i \in 1..Len(json_file.racks) :
                    /\ plPrims[k].path = RackPath(i - 1)
                    /\ plPrims[k].translate.present =>
                          plPrims[k].translate.v =
                              <<json_file.racks[i].x, json_file.racks[i].y, 0>>

\* the placer has run to its end on a designer file of one rotated rack whose
\* exported x and y differ, and has placed it
C18_Witness ==
    /\ plPc = "running"
    /\ json_file.written
    /\ Len(json_file.racks) = 1
    /\ json_file.racks[1].x # json_file.racks[1].y
    /\ json_file.racks[1].rotation # 0
    /\ plSuccessful = 1
    /\ Len(plPrims) = 1
    /\ plPrims[1].translate = Given(<<json_file.racks[1].x, json_file.racks[1].y, 0>>)

NextDesigner ==
    \/ change_mode_any
    \/ canvas_click_any
    \/ canvas_drag
    \/ canvas_release
    \/ delete_selected
    \/ duplicate_selected
    \/ clear_all
    \/ load_layout_file
    \/ load_preset_template

SpecDesigner == Init /\ [][NextDesigner]_vars

NextHandoff ==
    \/ DesignLayout
    \/ PlReadDesignerFile
    \/ PlReadInputs
    \/ PlCheckWarehouse
    \/ PlCheckRackAsset
    \/ PlLaunch
    \/ PlOpenStage
    \/ PlPlaceRack
    \/ PlReport

SpecHandoff == Init /\ [][NextHandoff]_vars

====
